---- MODULE Spec2Model ----
(***************************************************************************)
(* Resilience layer of high-availability-system:                           *)
(*   - pkg/retry: Do / DoWithContext with exponential backoff and jitter   *)
(*   - pkg/monitors: LocalLoggingFallback (buffered fallback sink),        *)
(*     MonitorWithFallback (failover facade), PeriodicFlusher              *)
(*   - pkg/healthcheck: Checker.AddCheck / RunChecks                       *)
(* Each component has its own specification (RetrySpec, SinkSpec,          *)
(* FacadeSpec, FlusherSpec, HealthSpec); the variables of the other        *)
(* components stay at their initial values.                                *)
(***************************************************************************)
EXTENDS Integers, Naturals, Sequences, FiniteSets, TLC

VARIABLES
    \* ---- retry.Do / retry.DoWithContext (one call) ----
    config,        \* *Config passed to the call
    mode,          \* "Do" or "DoWithContext"
    pc,            \* "loop" (loop head), "wait" (backoff wait), "done" (returned)
    attempt,       \* loop variable attempt
    err,           \* local var err (last error returned by fn)
    nextInterval,  \* local var nextInterval (time.Duration, nanoseconds)
    ret,           \* value returned by the call (meaningful when pc = "done")
    ctxDone,       \* ctx.Done() is closed
    ctxErr,        \* ctx.Err()
    invocations,   \* history: number of times fn was invoked
    waits,         \* history: the intervals waited on, in order
    okAt,          \* history: index of the attempt that returned nil (0: none)
    cancelAt,      \* history: where the call was when ctx got cancelled
    \* ---- monitors.LocalLoggingFallback ----
    enabled,       \* l.enabled
    maxSize,       \* l.maxSize
    buffer,        \* l.buffer
    mutex,         \* l.mutex: 0 when free, else the goroutine holding it
    fbLog,         \* records written by l.logger.Info, oldest first
    spc,           \* per goroutine: position inside HandleFailure / Flush
    metricData,    \* per goroutine: local var metricData of HandleFailure
    hfRet,         \* value the last HandleFailure call returned
    nextId,        \* history: number of HandleFailure calls made so far
    nFlush,        \* history: number of Flush calls made so far
    accepted,      \* history: points appended to the buffer so far, in order
    streakStart,   \* history: buffer when the current run of Flush calls began
    streak,        \* history: per Flush call of the current run, did it write a record
    \* ---- monitors.MonitorWithFallback ----
    fallbackStrategy, \* m.fallbackStrategy: "nil" or "local" (a *LocalLoggingFallback)
    periodicCheck, \* m.periodicCheck
    isHealthy,     \* m.isHealthy
    healthCheckTicker, \* m.healthCheckTicker: "nil", "running" or "stopped"
    tickC,         \* a tick is waiting in healthCheckTicker.C
    ppc,           \* periodicHealthCheck goroutine: "none", "range" or "write"
    healthy,       \* local var healthy of periodicHealthCheck
    wpc,           \* per goroutine: position inside Counter / Gauge / Histogram
    wIsHealthy,    \* per goroutine: local var isHealthy of the write
    wArgs,         \* per goroutine: method and arguments of the write
    wRet,          \* per goroutine: value the last write returned
    wTrace,        \* history, per goroutine: what the current or last write did
    nWrites,       \* history: number of writes started
    nProbes,       \* history: number of ticks taken by periodicHealthCheck
    nStops,        \* history: number of MonitorWithFallback.Stop calls
    observed,      \* history: last answer of IsHealthy: "none", "healthy", "degraded"
    response,      \* history: last response written by HealthCheckHandler
    \* ---- monitors.PeriodicFlusher ----
    isRunning,     \* p.isRunning
    ticker,        \* p.ticker: "nil", "running" or "stopped"
    flushTickC,    \* a tick is waiting in p.ticker.C
    stopChan,      \* p.stopChan: "open" or "closed"
    stopOnce,      \* p.stopOnce has run its function
    loops,         \* number of goroutines of Start sitting in their select
    mpc,           \* goroutine calling Start / Stop: "idle", "stop_flush", "stop_wait"
    lpc,           \* goroutine of Start: "select", or "flush" (tick taken, Flush not entered)
    nStarts,       \* history: number of Start calls
    nStopCalls,    \* history: number of Stop calls
    nTicks,        \* history: number of ticks delivered by p.ticker
    stopFlushes,   \* history: number of Flush calls made by Stop
    atStop,        \* history: accepted points when Stop found the flusher running
    stopsDone,     \* history: number of Stop calls that returned
    panicked,      \* history: close of a closed channel happened
    lastCall,      \* history: the last call made on the flusher: "none", "Start", "Stop"
    \* ---- healthcheck.Checker ----
    checks,        \* c.checks
    rpc,           \* RunChecks: "idle" or "loop" (holding the read lock)
    aggregateResult, \* local var aggregateResult of RunChecks
    result,        \* AggregateResult returned by the last RunChecks
    ranOn,         \* history: c.checks when the current or last run began
    executed,      \* history: indexes of the checks executed by that run, in order
    outcomes,      \* history: what Execute returned for each of them
    nRuns,         \* history: number of RunChecks calls
    \* ---- retry.Do against retry.DoWithContext on the same inputs ----
    eqIn,          \* the inputs: config, what fn returns per attempt, the jitter draws
    eqDo,          \* what Do did on them ("not run" before)
    eqCtx,         \* what DoWithContext did on them, ctx never cancelled
    \* ---- monitors.PrometheusMonitor ----
    vecs,          \* p.counters, p.gauges, p.histograms: kind -> name -> handle (0: absent)
    registry,      \* p.registry: the collectors registered, as [name, kind, handle]
    pmMutex,       \* p.mutex: 0 when free, else the goroutine holding it
    gpc,           \* per goroutine: position inside getOrCreate*
    gArgs,         \* per goroutine: kind and name of the call
    gRet,          \* per goroutine: (handle, error) the last call returned
    created,       \* history: kind and name of every vector created, by handle
    got,           \* history: every (kind, name, handle, error) returned
    nGets,         \* history: number of getOrCreate* calls
    \* ---- service.Service.CreateOrder ----
    retryConfig,   \* s.retryConfig
    orders,        \* s.orders: the orders stored, as [ID, Status]
    opc,           \* per goroutine: position inside CreateOrder
    order,         \* per goroutine: the local variable order
    payErr,        \* per goroutine: err, what retry.DoWithContext returned
    oRet,          \* per goroutine: the error the last CreateOrder returned
    notifiers,     \* IDs of the orders whose notification goroutine has not run yet
    notified,      \* history: IDs of the orders SendNotification was called for
    paidOk,        \* history: IDs of the orders ProcessPayment returned nil for
    oReturned,     \* history: every (ID, returned without error) of CreateOrder
    nOrders,       \* history: number of CreateOrder calls
    \* ---- middleware.RetryMiddleware, one request ----
    mwConfig,      \* config: MaxAttempts and whether ErrorHandler is set
    exempt,        \* the request's path is /internal/healthcheck or /metrics
    cIndex,        \* gin: c.index, the handler of the chain that is running
    mwpc,          \* position inside the middleware and retry.DoWithContext
    mwAttempt,     \* DoWithContext: attempt
    statusCode,    \* w.statusCode of the response recorder
    mwErr,         \* DoWithContext: err, then what it returned
    mwCtxDone,     \* the request's context (30s timeout) is done
    handlerRuns,   \* history: number of runs of the downstream handler
    statuses,      \* history: w.statusCode at the end of each call of fn
    reported       \* history: number of calls of config.ErrorHandler

retryVars == <<config, mode, pc, attempt, err, nextInterval, ret, ctxDone, ctxErr,
               invocations, waits, okAt, cancelAt>>
sinkVars == <<enabled, maxSize, buffer, mutex, fbLog, spc, metricData, hfRet, nextId,
              nFlush, accepted, streakStart, streak>>
facadeVars == <<fallbackStrategy, periodicCheck, isHealthy, healthCheckTicker,
                tickC, ppc, healthy, wpc, wIsHealthy, wArgs, wRet, wTrace, nWrites,
                nProbes, nStops, observed, response>>
flusherVars == <<isRunning, ticker, flushTickC, stopChan, stopOnce, loops, mpc, lpc,
                 nStarts, nStopCalls, nTicks, stopFlushes, atStop, stopsDone,
                 panicked, lastCall>>
healthVars == <<checks, rpc, aggregateResult, result, ranOn, executed, outcomes, nRuns>>
equivVars == <<eqIn, eqDo, eqCtx>>
promVars == <<vecs, registry, pmMutex, gpc, gArgs, gRet, created, got, nGets>>
orderVars == <<retryConfig, orders, opc, order, payErr, oRet, notifiers, notified, paidOk,
               oReturned, nOrders>>
mwVars == <<mwConfig, exempt, cIndex, mwpc, mwAttempt, statusCode, mwErr, mwCtxDone,
            handlerRuns, statuses, reported>>
vars == <<retryVars, sinkVars, facadeVars, flusherVars, healthVars, equivVars, promVars, orderVars, mwVars>>

(***************************************************************************)
(* Bounds of the model.                                                    *)
(***************************************************************************)
MaxAttemptsBound == 3  \* largest MaxAttempts of the small-scale configs
RandDen == 4           \* rand.Float64() is drawn from {0/RandDen .. (RandDen-1)/RandDen}
NumProcs == 2          \* goroutines calling into the sink
MaxPoints == 3         \* HandleFailure calls per run
MaxFlushes == 2        \* Flush calls per run
MaxCap == 2            \* largest maxBufferSize
MaxWrites == 2         \* Counter / Gauge / Histogram calls per run of the facade
MaxProbes == 1         \* ticks of the facade's health-check ticker per run
MaxFacadeStops == 1    \* MonitorWithFallback.Stop calls per run
MaxStops == 2          \* PeriodicFlusher.Stop calls per run
MaxStarts == 1         \* PeriodicFlusher.Start calls per run
MaxTicks == 1          \* ticks of the flusher's ticker per run
MaxFlusherPoints == 2  \* HandleFailure calls per run beside a PeriodicFlusher
MaxChecks == 2         \* registered health checks
MaxRuns == 2           \* RunChecks calls per run
MaxGets == 3           \* PrometheusMonitor writes per run
MaxOrders == 2         \* CreateOrder calls per run
MaxMwAttempts == 3     \* largest MaxAttempts of the middleware's config

(***************************************************************************)
(* Errors.  A Go error value is modelled by its identity (ptr), its        *)
(* message (text, a sequence of string pieces) and the identities that      *)
(* errors.Is can reach through Unwrap (wraps).                             *)
(***************************************************************************)
NoError == [ptr |-> "nil", text |-> <<>>, wraps |-> {}]

errorsNew(text) == [ptr |-> "new", text |-> text, wraps |-> {}]

ErrMaxRetriesReached ==
    [ptr |-> "ErrMaxRetriesReached", text |-> <<"max retries reached">>, wraps |-> {}]

errorsIs(e, target) == e.ptr = target.ptr \/ target.ptr \in e.wraps

\* Errors the retried operation may return.
OpErrors == { [ptr |-> p, text |-> <<p>>, wraps |-> {}] : p \in {"e1", "e2"} }

\* context.Canceled / context.DeadlineExceeded
CtxErrors == { [ptr |-> "context.Canceled", text |-> <<"context canceled">>, wraps |-> {}],
               [ptr |-> "context.DeadlineExceeded",
                text |-> <<"context deadline exceeded">>, wraps |-> {}] }

(***************************************************************************)
(* float64 arithmetic of calculateNextInterval.  Every value that occurs   *)
(* is a multiple of 1/FScale, so a float64 is modelled exactly as          *)
(* w + f/FScale with w, f naturals and f < FScale (w is kept apart so that *)
(* durations of 10^9 ns stay inside TLC's integers).  A factor is a        *)
(* rational [num, den].                                                    *)
(***************************************************************************)
FScale == 2 * 2 * RandDen

Rat(n, d) == [num |-> n, den |-> d]

FInt(n) == [w |-> n, f |-> 0]

FNorm(w, f) == [w |-> w + (f \div FScale), f |-> f % FScale]

FAdd(a, b) == FNorm(a.w + b.w, a.f + b.f)

\* a - b for a >= b
FSub(a, b) ==
    IF a.f >= b.f THEN [w |-> a.w - b.w, f |-> a.f - b.f]
    ELSE [w |-> a.w - b.w - 1, f |-> a.f + FScale - b.f]

\* a * q.num / q.den
FMul(a, q) ==
    LET whole == (a.w \div q.den) * q.num
        rest  == (a.w % q.den) * q.num
        t     == (rest % q.den) * FScale + a.f * q.num
    IN  FNorm(whole + (rest \div q.den), t \div q.den)

FLe(a, b) == a.w < b.w \/ (a.w = b.w /\ a.f <= b.f)

FMin(a, b) == IF FLe(a, b) THEN a ELSE b

\* time.Duration(x): conversion of a non-negative float64 truncates
FTrunc(a) == a.w

(***************************************************************************)
(* Configurations.  Durations are in nanoseconds (time.Duration).          *)
(***************************************************************************)
Millisecond == 1000 * 1000

\* The policy main() builds from the defaults of loadConfig.
MainConfig ==
    [MaxAttempts |-> 3, InitialInterval |-> 100 * Millisecond,
     MaxInterval |-> 1000 * Millisecond, Multiplier |-> Rat(2, 1),
     RandomizationFactor |-> Rat(1, 2)]

\* The same policy without jitter.
NoJitterConfig == [MainConfig EXCEPT !.RandomizationFactor = Rat(0, 1)]

\* Config is a plain struct: any field values can be passed, MaxAttempts <= 0
\* included.
SmallConfigs ==
    { [MaxAttempts |-> n, InitialInterval |-> 4, MaxInterval |-> mx,
       Multiplier |-> m, RandomizationFactor |-> rf] :
        n \in -1 .. MaxAttemptsBound, mx \in {10, 40},
        m \in {Rat(2, 1), Rat(3, 2)},
        rf \in {Rat(0, 1), Rat(1, 2), Rat(1, 1)} }

\* Nor are the other fields checked anywhere: policies with a multiplier of 1 or
\* below, or with a zero initial interval, can be built and passed as well.
UncheckedConfigs ==
    { [MaxAttempts |-> MaxAttemptsBound, InitialInterval |-> i, MaxInterval |-> 10,
       Multiplier |-> m, RandomizationFactor |-> rf] :
        i \in {0, 4},
        m \in {Rat(1, 2), Rat(1, 1), Rat(2, 1)},
        rf \in {Rat(0, 1), Rat(1, 2)} }

Configs == SmallConfigs \cup UncheckedConfigs \cup {MainConfig, NoJitterConfig}

\* rand.Float64(): a value of [0, 1)
RandDraws == { Rat(k, RandDen) : k \in 0 .. RandDen - 1 }

(***************************************************************************)
(* calculateNextInterval; r is the value rand.Float64() returns.           *)
(***************************************************************************)
calculateNextInterval(currentInterval, att, cfg, r) ==
    LET interval    == FMul(FInt(currentInterval), cfg.Multiplier)
        delta       == FMul(interval, cfg.RandomizationFactor)
        minInterval == FSub(interval, delta)
        maxInterval == FAdd(interval, delta)
        jittered    == FAdd(minInterval,
                            FMul(FAdd(FSub(maxInterval, minInterval), FInt(1)), r))
        capped      == FMin(jittered, FInt(cfg.MaxInterval))
    IN  FTrunc(capped)

\* errors.New(err.Error() + ": " + ErrMaxRetriesReached.Error())
ExhaustedError(e) == errorsNew(e.text \o <<": ">> \o ErrMaxRetriesReached.text)

\* Code after the loop: wrap a non-nil err, else return err (nil).
AfterLoop(e) == IF e # NoError THEN ExhaustedError(e) ELSE e

\* The loop condition attempt <= config.MaxAttempts.
LoopCond(att, cfg) == att <= cfg.MaxAttempts

\* Mutant: the attempts are counted from 0.
FirstAttemptZero == 1 - 1

\* for attempt := 1; ...
FirstAttempt == 1

\* The test attempt == config.MaxAttempts that breaks out before the wait.
IsLastAttempt(att, cfg) == att = cfg.MaxAttempts

(***************************************************************************)
(* The sink's variables at construction.                                   *)
(***************************************************************************)
Procs == 1 .. NumProcs

NoPoint == [id |-> 0, value |-> "none"]

\* no call has returned yet
NotReturned == [ptr |-> "not returned", text |-> <<>>, wraps |-> {}]

SinkIdle ==
    /\ enabled = TRUE
    /\ maxSize = 1
    /\ buffer = <<>>
    /\ mutex = 0
    /\ fbLog = <<>>
    /\ spc = [p \in Procs |-> "idle"]
    /\ metricData = [p \in Procs |-> NoPoint]
    /\ hfRet = NotReturned
    /\ nextId = 0
    /\ nFlush = 0
    /\ accepted = <<>>
    /\ streakStart = <<>>
    /\ streak = <<>>

(***************************************************************************)
(* The facade's, the flusher's and the checker's variables at rest.        *)
(***************************************************************************)
NoArgs == [id |-> 0, type |-> "none", value |-> "none"]

NoTrace == [primary |-> "none", handed |-> <<>>]

\* no RunChecks has returned yet
NoResult == [Status |-> "none", Details |-> {}]

\* HealthCheckHandler has not answered yet
NoResponse ==
    [isHealthy |-> FALSE, code |-> 0, status |-> "none", monitoring |-> "none",
     notes |-> FALSE]

FacadeIdle ==
    /\ fallbackStrategy = "nil"
    /\ periodicCheck = 0
    /\ isHealthy = TRUE
    /\ healthCheckTicker = "nil"
    /\ tickC = FALSE
    /\ ppc = "none"
    /\ healthy = FALSE
    /\ wpc = [p \in Procs |-> "idle"]
    /\ wIsHealthy = [p \in Procs |-> FALSE]
    /\ wArgs = [p \in Procs |-> NoArgs]
    /\ wRet = [p \in Procs |-> NotReturned]
    /\ wTrace = [p \in Procs |-> NoTrace]
    /\ nWrites = 0
    /\ nProbes = 0
    /\ nStops = 0
    /\ observed = "none"
    /\ response = NoResponse

\* NewPeriodicFlusher
FlusherIdle ==
    /\ isRunning = FALSE
    /\ ticker = "nil"
    /\ flushTickC = FALSE
    /\ stopChan = "open"
    /\ stopOnce = FALSE
    /\ loops = 0
    /\ mpc = "idle"
    /\ lpc = "select"
    /\ nStarts = 0
    /\ nStopCalls = 0
    /\ nTicks = 0
    /\ stopFlushes = 0
    /\ atStop = <<>>
    /\ stopsDone = 0
    /\ panicked = FALSE
    /\ lastCall = "none"

\* NewChecker
HealthIdle ==
    /\ checks = <<>>
    /\ rpc = "idle"
    /\ aggregateResult = NoResult
    /\ result = NoResult
    /\ ranOn = <<>>
    /\ executed = <<>>
    /\ outcomes = <<>>
    /\ nRuns = 0

\* nothing has been run
NotRun == [invocations |-> 0 - 1, waits |-> <<>>, ret |-> NotReturned]

NoInputs == [config |-> NoJitterConfig, outs |-> <<>>, draws |-> <<>>]

EquivIdle ==
    /\ eqIn = NoInputs
    /\ eqDo = NotRun
    /\ eqCtx = NotRun

MetricKinds == {"counter", "gauge", "histogram"}

MetricNames == {"x", "y"}

NoHandle == [handle |-> 0, err |-> "not returned"]

NoCall == [kind |-> "none", name |-> "none", vec |-> 0]

\* NewPrometheusMonitor
PromIdle ==
    /\ vecs = [k \in MetricKinds |-> [n \in MetricNames |-> 0]]
    /\ registry = {}
    /\ pmMutex = 0
    /\ gpc = [p \in Procs |-> "idle"]
    /\ gArgs = [p \in Procs |-> NoCall]
    /\ gRet = [p \in Procs |-> NoHandle]
    /\ created = <<>>
    /\ got = {}
    /\ nGets = 0

NoOrder == [ID |-> 0, Status |-> "none"]

\* NewService
OrderIdle ==
    /\ retryConfig = NoJitterConfig
    /\ orders = {}
    /\ opc = [p \in Procs |-> "idle"]
    /\ order = [p \in Procs |-> NoOrder]
    /\ payErr = [p \in Procs |-> NotReturned]
    /\ oRet = [p \in Procs |-> NotReturned]
    /\ notifiers = {}
    /\ notified = {}
    /\ paidOk = {}
    /\ oReturned = {}
    /\ nOrders = 0

\* no request has reached the middleware
MwIdle ==
    /\ mwConfig = [MaxAttempts |-> 0, ErrorHandler |-> FALSE]
    /\ exempt = FALSE
    /\ cIndex = 0
    /\ mwpc = "none"
    /\ mwAttempt = 0
    /\ statusCode = 0
    /\ mwErr = NoError
    /\ mwCtxDone = FALSE
    /\ handlerRuns = 0
    /\ statuses = <<>>
    /\ reported = 0

nonRetryVars == <<sinkVars, facadeVars, flusherVars, healthVars, equivVars, promVars, orderVars, mwVars>>
nonSinkVars == <<retryVars, facadeVars, flusherVars, healthVars, equivVars, promVars, orderVars, mwVars>>

(***************************************************************************)
(* retry.Do and retry.DoWithContext                                        *)
(***************************************************************************)
NotCancelled == [pc |-> "none", attempt |-> 0]

RetryInit ==
    /\ config \in Configs
    /\ mode \in {"Do", "DoWithContext"}
    /\ pc = "loop"
    /\ attempt = FirstAttempt
    /\ err = NoError
    /\ nextInterval = config.InitialInterval
    /\ ret = NoError
    \* the context may be cancelled already when the call starts
    /\ ctxDone \in (IF mode = "DoWithContext" THEN BOOLEAN ELSE {FALSE})
    /\ ctxErr \in (IF ctxDone THEN CtxErrors ELSE {NoError})
    /\ invocations = 0
    /\ waits = <<>>
    /\ okAt = 0
    /\ cancelAt = IF ctxDone THEN [pc |-> "start", attempt |-> 0] ELSE NotCancelled

\* Mutant: the context is never looked at.
CtxNeverChecked == FALSE

\* The select (at the loop head, and around the timer) sees ctx.Done() closed.
CtxCheck == mode = "DoWithContext" /\ ctxDone

Return(e) ==
    /\ pc' = "done"
    /\ ret' = e

\* The loop condition fails (only when MaxAttempts < 1): the code after the
\* loop runs.
LoopExit ==
    /\ pc = "loop"
    /\ ~LoopCond(attempt, config)
    /\ Return(AfterLoop(err))
    /\ UNCHANGED <<config, mode, attempt, err, nextInterval, ctxDone, ctxErr,
                   invocations, waits, okAt, cancelAt>>
    /\ UNCHANGED nonRetryVars

\* DoWithContext, loop head: case <-ctx.Done(): return ctx.Err()
CtxAbort ==
    /\ pc = "loop"
    /\ LoopCond(attempt, config)
    /\ CtxCheck
    /\ Return(ctxErr)
    /\ UNCHANGED <<config, mode, attempt, err, nextInterval, ctxDone, ctxErr,
                   invocations, waits, okAt, cancelAt>>
    /\ UNCHANGED nonRetryVars

\* Mutant: a nil result does not end the loop; the call backs off and goes on.
AttemptSucceedsKeepsGoing ==
    /\ pc = "loop"
    /\ LoopCond(attempt, config)
    /\ ~CtxCheck
    /\ ~IsLastAttempt(attempt, config)
    /\ err' = NoError
    /\ invocations' = invocations + 1
    /\ okAt' = IF okAt = 0 THEN attempt ELSE okAt
    /\ pc' = "wait"
    /\ UNCHANGED <<config, mode, attempt, nextInterval, ret, ctxDone, ctxErr, waits,
                   cancelAt>>
    /\ UNCHANGED nonRetryVars

\* fn returns nil: return nil
AttemptSucceeds ==
    /\ pc = "loop"
    /\ LoopCond(attempt, config)
    /\ ~CtxCheck
    /\ err' = NoError
    /\ invocations' = invocations + 1
    /\ okAt' = IF okAt = 0 THEN attempt ELSE okAt
    /\ Return(NoError)
    /\ UNCHANGED <<config, mode, attempt, nextInterval, ctxDone, ctxErr, waits,
                   cancelAt>>
    /\ UNCHANGED nonRetryVars

\* fn returns an error on the last attempt: break, then the code after the loop
AttemptFailsLast ==
    /\ pc = "loop"
    /\ LoopCond(attempt, config)
    /\ ~CtxCheck
    /\ IsLastAttempt(attempt, config)
    /\ \E e \in OpErrors :
        /\ err' = e
        /\ Return(AfterLoop(e))
    /\ invocations' = invocations + 1
    /\ UNCHANGED <<config, mode, attempt, nextInterval, ctxDone, ctxErr, waits,
                   okAt, cancelAt>>
    /\ UNCHANGED nonRetryVars

\* fn returns an error on an earlier attempt: compute the interval and start
\* waiting (time.Sleep / time.NewTimer)
AttemptFailsRetry ==
    /\ pc = "loop"
    /\ LoopCond(attempt, config)
    /\ ~CtxCheck
    /\ ~IsLastAttempt(attempt, config)
    /\ \E e \in OpErrors : err' = e
    /\ \E r \in RandDraws :
        nextInterval' = calculateNextInterval(nextInterval, attempt, config, r)
    /\ waits' = Append(waits, nextInterval')
    /\ invocations' = invocations + 1
    /\ pc' = "wait"
    /\ UNCHANGED <<config, mode, attempt, ret, ctxDone, ctxErr, okAt, cancelAt>>
    /\ UNCHANGED nonRetryVars

\* time.Sleep returns / case <-timer.C: next iteration
WaitElapsed ==
    /\ pc = "wait"
    /\ attempt' = attempt + 1
    /\ pc' = "loop"
    /\ UNCHANGED <<config, mode, err, nextInterval, ret, ctxDone, ctxErr,
                   invocations, waits, okAt, cancelAt>>
    /\ UNCHANGED nonRetryVars

\* DoWithContext, during the wait: case <-ctx.Done(): timer.Stop(); return ctx.Err()
WaitCancelled ==
    /\ pc = "wait"
    /\ CtxCheck
    /\ Return(ctxErr)
    /\ UNCHANGED <<config, mode, attempt, err, nextInterval, ctxDone, ctxErr,
                   invocations, waits, okAt, cancelAt>>
    /\ UNCHANGED nonRetryVars

\* The caller (or a deadline) cancels the context while the call runs.
Cancel ==
    /\ mode = "DoWithContext"
    /\ pc # "done"
    /\ ~ctxDone
    /\ ctxDone' = TRUE
    /\ ctxErr' \in CtxErrors
    /\ cancelAt' = [pc |-> pc, attempt |-> attempt]
    /\ UNCHANGED <<config, mode, pc, attempt, err, nextInterval, ret,
                   invocations, waits, okAt>>
    /\ UNCHANGED nonRetryVars

RetryNext ==
    \/ LoopExit
    \/ CtxAbort
    \/ AttemptSucceeds
    \/ AttemptFailsLast
    \/ AttemptFailsRetry
    \/ WaitElapsed
    \/ WaitCancelled
    \/ Cancel

RetrySpecInit == RetryInit /\ SinkIdle /\ FacadeIdle /\ FlusherIdle /\ HealthIdle /\ EquivIdle
    /\ PromIdle /\ OrderIdle /\ MwIdle

RetrySpec == RetrySpecInit /\ [][RetryNext]_vars

(***************************************************************************)
(* monitors.LocalLoggingFallback.  Goroutines call HandleFailure and Flush *)
(* concurrently; a call is cut into steps at the mutex operations and      *)
(* inside flushBuffer, so that mutual exclusion is the mutex's doing.      *)
(* The logger is an append-only sequence of entries.                       *)
(***************************************************************************)
RetryIdle ==
    /\ config = NoJitterConfig
    /\ mode = "Do"
    /\ pc = "done"
    /\ attempt = FirstAttempt
    /\ err = NoError
    /\ nextInterval = config.InitialInterval
    /\ ret = NoError
    /\ ctxDone = FALSE
    /\ ctxErr = NoError
    /\ invocations = 0
    /\ waits = <<>>
    /\ okAt = 0
    /\ cancelAt = NotCancelled

\* MetricData.Value is a float64: a finite number, or NaN (which
\* encoding/json refuses to encode).
PointValues == {"1.0", "NaN"}

\* json.Marshal(l.buffer) succeeds
Marshalable(buf) == \A i \in 1 .. Len(buf) : buf[i].value # "NaN"

\* l.logger.WithField("metrics_count", len(l.buffer)).Info(string(data))
InfoEntry(buf) == [level |-> "info", metrics |-> buf]

\* l.logger.Errorf("Failed to marshal metrics buffer: %v", err)
ErrorEntry == [level |-> "error", metrics |-> <<>>]

\* Mutant: the buffer is not emptied after the record is written.
BufferKept(buf) == buf

\* l.buffer = l.buffer[:0]
BufferReset(buf) == <<>>

\* Mutant: the lock is taken without waiting for its holder.
MutexLockNoWait(p) == mutex' = p

\* l.mutex.Lock()
MutexLock(p) ==
    /\ mutex = 0
    /\ mutex' = p

\* l.mutex.Unlock()
MutexUnlock(p) == mutex' = 0

\* len(l.buffer) >= l.maxSize
BufferFull == Len(buffer) >= maxSize

SinkInit ==
    /\ enabled \in BOOLEAN
    /\ maxSize \in 1 .. MaxCap
    /\ buffer = <<>>
    /\ mutex = 0
    /\ fbLog = <<>>
    /\ spc = [p \in Procs |-> "idle"]
    /\ metricData = [p \in Procs |-> NoPoint]
    /\ hfRet = NotReturned
    /\ nextId = 0
    /\ nFlush = 0
    /\ accepted = <<>>
    /\ streakStart = <<>>
    /\ streak = <<>>

\* Mutant: a disabled sink buffers the point all the same.
HFDisabledBuffers(p) ==
    /\ spc[p] = "idle"
    /\ nextId < MaxPoints
    /\ ~enabled
    /\ nextId' = nextId + 1
    /\ hfRet' = NoError
    /\ buffer' = Append(buffer, [id |-> nextId + 1, value |-> "1.0"])
    /\ UNCHANGED <<enabled, maxSize, mutex, fbLog, spc, metricData, nFlush,
                   accepted, streakStart, streak>>
    /\ UNCHANGED nonSinkVars

\* HandleFailure on a disabled sink: return nil
HFDisabled(p) ==
    /\ spc[p] = "idle"
    /\ nextId < MaxPoints
    /\ ~enabled
    /\ nextId' = nextId + 1
    /\ hfRet' = NoError
    /\ UNCHANGED <<enabled, maxSize, buffer, mutex, fbLog, spc, metricData, nFlush,
                   accepted, streakStart, streak>>
    /\ UNCHANGED nonSinkVars

\* HandleFailure, enabled: build metricData (the id stands for name, type,
\* labels and timestamp of the call)
HFCreate(p) ==
    /\ spc[p] = "idle"
    /\ nextId < MaxPoints
    /\ enabled
    /\ nextId' = nextId + 1
    /\ \E v \in PointValues :
        metricData' = [metricData EXCEPT ![p] = [id |-> nextId + 1, value |-> v]]
    /\ spc' = [spc EXCEPT ![p] = "hf_lock"]
    /\ UNCHANGED <<enabled, maxSize, buffer, mutex, fbLog, nFlush, accepted,
                   streakStart, streak>>
    /\ UNCHANGED hfRet
    /\ UNCHANGED nonSinkVars

\* HandleFailure: l.mutex.Lock()
HFLock(p) ==
    /\ spc[p] = "hf_lock"
    /\ MutexLock(p)
    /\ spc' = [spc EXCEPT ![p] = "hf_check"]
    /\ streak' = <<>>
    /\ UNCHANGED <<enabled, maxSize, buffer, fbLog, metricData, nextId, nFlush,
                   accepted, streakStart>>
    /\ UNCHANGED hfRet
    /\ UNCHANGED nonSinkVars

\* HandleFailure: if len(l.buffer) >= l.maxSize { l.flushBuffer() }
HFCheck(p) ==
    /\ spc[p] = "hf_check"
    /\ spc' = [spc EXCEPT ![p] = IF BufferFull THEN "hf_flush" ELSE "hf_append"]
    /\ UNCHANGED <<enabled, maxSize, buffer, mutex, fbLog, metricData, nextId,
                   nFlush, accepted, streakStart, streak>>
    /\ UNCHANGED hfRet
    /\ UNCHANGED nonSinkVars

\* flushBuffer up to the log write: returns on an empty buffer and on a
\* marshalling error (which it logs), else writes the record.
\* outcome: "noop", "failed" or "record".
FlushOutcome ==
    IF Len(buffer) = 0 THEN "noop"
    ELSE IF ~Marshalable(buffer) THEN "failed"
    ELSE "record"

\* Mutant: a marshalling error is not logged.
FlushBufferWriteSilent ==
    fbLog' = IF FlushOutcome = "record" THEN Append(fbLog, InfoEntry(buffer)) ELSE fbLog

FlushBufferWrite ==
    fbLog' = CASE FlushOutcome = "noop"   -> fbLog
               [] FlushOutcome = "failed" -> Append(fbLog, ErrorEntry)
               [] FlushOutcome = "record" -> Append(fbLog, InfoEntry(buffer))

\* HandleFailure: flushBuffer, first part
HFFlush(p) ==
    /\ spc[p] = "hf_flush"
    /\ FlushBufferWrite
    /\ spc' = [spc EXCEPT ![p] = IF FlushOutcome = "record" THEN "hf_clear"
                                 ELSE "hf_append"]
    /\ UNCHANGED <<enabled, maxSize, buffer, mutex, metricData, nextId, nFlush,
                   accepted, streakStart, streak>>
    /\ UNCHANGED hfRet
    /\ UNCHANGED nonSinkVars

\* HandleFailure: flushBuffer, l.buffer = l.buffer[:0]
HFClear(p) ==
    /\ spc[p] = "hf_clear"
    /\ buffer' = BufferReset(buffer)
    /\ spc' = [spc EXCEPT ![p] = "hf_append"]
    /\ UNCHANGED <<enabled, maxSize, mutex, fbLog, metricData, nextId, nFlush,
                   accepted, streakStart, streak>>
    /\ UNCHANGED hfRet
    /\ UNCHANGED nonSinkVars

\* HandleFailure: l.buffer = append(l.buffer, metricData); return nil
\* (the deferred Unlock runs)
HFAppend(p) ==
    /\ spc[p] = "hf_append"
    /\ buffer' = Append(buffer, metricData[p])
    /\ accepted' = Append(accepted, metricData[p])
    /\ MutexUnlock(p)
    /\ spc' = [spc EXCEPT ![p] = "idle"]
    /\ metricData' = [metricData EXCEPT ![p] = NoPoint]
    /\ hfRet' = NoError
    /\ UNCHANGED <<enabled, maxSize, fbLog, nextId, nFlush, streakStart, streak>>
    /\ UNCHANGED nonSinkVars

\* Flush: l.mutex.Lock()
FLock(p) ==
    /\ spc[p] = "idle"
    /\ nFlush < MaxFlushes
    /\ MutexLock(p)
    /\ nFlush' = nFlush + 1
    /\ spc' = [spc EXCEPT ![p] = "f_flush"]
    /\ streakStart' = IF streak = <<>> THEN buffer ELSE streakStart
    /\ UNCHANGED <<enabled, maxSize, buffer, fbLog, metricData, nextId, accepted,
                   streak>>
    /\ UNCHANGED hfRet
    /\ UNCHANGED nonSinkVars

\* Flush: flushBuffer, first part; when flushBuffer returns early the
\* deferred Unlock runs
FFlush(p) ==
    /\ spc[p] = "f_flush"
    /\ FlushBufferWrite
    /\ streak' = Append(streak, FlushOutcome)
    /\ IF FlushOutcome = "record"
       THEN /\ spc' = [spc EXCEPT ![p] = "f_clear"]
            /\ UNCHANGED mutex
       ELSE /\ spc' = [spc EXCEPT ![p] = "idle"]
            /\ MutexUnlock(p)
    /\ UNCHANGED <<enabled, maxSize, buffer, metricData, nextId, nFlush, accepted,
                   streakStart>>
    /\ UNCHANGED hfRet
    /\ UNCHANGED nonSinkVars

\* Flush: flushBuffer, l.buffer = l.buffer[:0]; the deferred Unlock runs
FClear(p) ==
    /\ spc[p] = "f_clear"
    /\ buffer' = BufferReset(buffer)
    /\ MutexUnlock(p)
    /\ spc' = [spc EXCEPT ![p] = "idle"]
    /\ UNCHANGED <<enabled, maxSize, fbLog, metricData, nextId, nFlush, accepted,
                   streakStart, streak>>
    /\ UNCHANGED hfRet
    /\ UNCHANGED nonSinkVars

SinkNext ==
    \/ \E p \in Procs : HFDisabled(p)
    \/ \E p \in Procs : HFCreate(p)
    \/ \E p \in Procs : HFLock(p)
    \/ \E p \in Procs : HFCheck(p)
    \/ \E p \in Procs : HFFlush(p)
    \/ \E p \in Procs : HFClear(p)
    \/ \E p \in Procs : HFAppend(p)
    \/ \E p \in Procs : FLock(p)
    \/ \E p \in Procs : FFlush(p)
    \/ \E p \in Procs : FClear(p)

SinkSpecInit == RetryIdle /\ SinkInit /\ FacadeIdle /\ FlusherIdle /\ HealthIdle /\ EquivIdle
    /\ PromIdle /\ OrderIdle /\ MwIdle

SinkSpec == SinkSpecInit /\ [][SinkNext]_vars

(***************************************************************************)
(* monitors.MonitorWithFallback.  Goroutines call Counter, Gauge and       *)
(* Histogram concurrently (the three methods differ only in the primary    *)
(* method they call and the MetricType they pass on); a write is cut into  *)
(* steps at the lock operations and at the call into the primary backend.  *)
(* The periodicHealthCheck goroutine takes ticks from the ticker's         *)
(* channel.  The primary backend is the environment: each of its calls     *)
(* succeeds or fails.  The fallback is a LocalLoggingFallback (or nil),    *)
(* whose HandleFailure runs as one step.  FacadeSpec has every goroutine   *)
(* write (the same metric each time); FacadeCallSpec has one writer and    *)
(* draws the method and the value of each write.                           *)
(***************************************************************************)
MetricTypes == {"counter", "gauge", "histogram"}

ErrMonitoringSystemUnavailable ==
    [ptr |-> "ErrMonitoringSystemUnavailable",
     text |-> <<"monitoring system is unavailable">>, wraps |-> {}]

\* values of periodicCheck handed to NewMonitorWithFallback
PeriodicChecks == {-1, 0, 30}

\* Mutant: the ticker and the probe goroutine are started whatever the period.
ProbeStartedAlways(period) == TRUE

\* NewMonitorWithFallback: if periodicCheck > 0 { ticker; go periodicHealthCheck }
ProbeStarted(period) == period > 0

\* Mutant: the write calls the primary backend whatever state it read.
UsePrimaryAlways(h) == TRUE

\* Counter / Gauge / Histogram: if isHealthy { ... primary ... }
UsePrimary(h) == h

\* Mutant: every method hands CounterType to the fallback.
FallbackTypeCounter(t) == "counter"

\* the MetricType the method passes to HandleFailure: CounterType in
\* Counter, GaugeType in Gauge, HistogramType in Histogram
FallbackType(t) == t

\* Mutant: the probe always writes Healthy.
ProbeVerdictHealthy(h) == TRUE

\* periodicHealthCheck: m.isHealthy = healthy
ProbeVerdict(h) == h

\* m.fallbackStrategy != nil && m.fallbackStrategy.IsEnabled()
FallbackUsable == fallbackStrategy # "nil" /\ enabled

FacadeInit ==
    /\ fallbackStrategy \in {"nil", "local"}
    /\ maxSize = MaxCap
    /\ (fallbackStrategy = "nil" => ~enabled)
    /\ periodicCheck \in PeriodicChecks
    /\ isHealthy = TRUE
    /\ healthCheckTicker = IF ProbeStarted(periodicCheck) THEN "running" ELSE "nil"
    /\ tickC = FALSE
    /\ ppc = IF ProbeStarted(periodicCheck) THEN "range" ELSE "none"
    /\ healthy = FALSE
    /\ wpc = [p \in Procs |-> "idle"]
    /\ wIsHealthy = [p \in Procs |-> FALSE]
    /\ wArgs = [p \in Procs |-> NoArgs]
    /\ wRet = [p \in Procs |-> NotReturned]
    /\ wTrace = [p \in Procs |-> NoTrace]
    /\ nWrites = 0
    /\ nProbes = 0
    /\ nStops = 0
    /\ observed = "none"
    /\ response = NoResponse

\* LocalLoggingFallback.HandleFailure(ctx, name, metricType, value, labels)
\* on an enabled sink, from Lock to the deferred Unlock
HandleFailureCall(point) ==
    /\ nextId' = nextId + 1
    /\ IF BufferFull
       THEN /\ FlushBufferWrite
            /\ buffer' = Append(IF FlushOutcome = "record" THEN BufferReset(buffer)
                                ELSE buffer, point)
       ELSE /\ fbLog' = fbLog
            /\ buffer' = Append(buffer, point)
    /\ accepted' = Append(accepted, point)
    /\ hfRet' = NoError
    /\ UNCHANGED <<enabled, maxSize, mutex, spc, metricData, nFlush, streakStart,
                   streak>>

\* Counter / Gauge / Histogram: RLock; isHealthy := m.isHealthy; RUnlock
\* (the id stands for the name and the labels of the call)
WriteRead(w, t, v) ==
    /\ wpc[w] = "idle"
    /\ nWrites < MaxWrites
    /\ nWrites' = nWrites + 1
    /\ wArgs' = [wArgs EXCEPT ![w] = [id |-> nWrites + 1, type |-> t, value |-> v]]
    /\ wIsHealthy' = [wIsHealthy EXCEPT ![w] = isHealthy]
    /\ wpc' = [wpc EXCEPT ![w] = IF UsePrimary(isHealthy) THEN "primary"
                                 ELSE "fallback"]
    /\ wRet' = [wRet EXCEPT ![w] = NotReturned]
    /\ wTrace' = [wTrace EXCEPT ![w] = [primary |-> "skipped", handed |-> <<>>]]
    /\ UNCHANGED <<fallbackStrategy, periodicCheck, isHealthy, healthCheckTicker,
                   tickC, ppc, healthy, nProbes, nStops, observed, response>>
    /\ UNCHANGED <<retryVars, sinkVars, flusherVars, healthVars, equivVars, promVars, orderVars, mwVars>>

\* Mutant: a successful write is also handed to the fallback.
PrimaryOkMirrored(w) ==
    /\ wpc[w] = "primary"
    /\ wTrace' = [wTrace EXCEPT ![w].primary = "ok", ![w].handed = <<wArgs[w]>>]
    /\ wRet' = [wRet EXCEPT ![w] = NoError]
    /\ wpc' = [wpc EXCEPT ![w] = "idle"]
    /\ HandleFailureCall(wArgs[w])
    /\ UNCHANGED <<fallbackStrategy, periodicCheck, isHealthy, healthCheckTicker,
                   tickC, ppc, healthy, wIsHealthy, wArgs, nWrites, nProbes, nStops,
                   observed, response>>
    /\ UNCHANGED <<retryVars, flusherVars, healthVars, equivVars, promVars, orderVars, mwVars>>

\* err := m.primaryMonitor.Counter(...); if err == nil { return nil }
PrimaryOk(w) ==
    /\ wpc[w] = "primary"
    /\ wTrace' = [wTrace EXCEPT ![w].primary = "ok"]
    /\ wRet' = [wRet EXCEPT ![w] = NoError]
    /\ wpc' = [wpc EXCEPT ![w] = "idle"]
    /\ UNCHANGED <<fallbackStrategy, periodicCheck, isHealthy, healthCheckTicker,
                   tickC, ppc, healthy, wIsHealthy, wArgs, nWrites, nProbes, nStops,
                   observed, response>>
    /\ UNCHANGED <<retryVars, sinkVars, flusherVars, healthVars, equivVars, promVars, orderVars, mwVars>>

\* err := m.primaryMonitor.Counter(...) with err != nil
PrimaryErr(w) ==
    /\ wpc[w] = "primary"
    /\ wTrace' = [wTrace EXCEPT ![w].primary = "err"]
    /\ wpc' = [wpc EXCEPT ![w] = "degrade"]
    /\ UNCHANGED <<fallbackStrategy, periodicCheck, isHealthy, healthCheckTicker,
                   tickC, ppc, healthy, wIsHealthy, wArgs, wRet, nWrites, nProbes,
                   nStops, observed, response>>
    /\ UNCHANGED <<retryVars, sinkVars, flusherVars, healthVars, equivVars, promVars, orderVars, mwVars>>

\* m.mutex.Lock(); m.isHealthy = false; m.mutex.Unlock()
Degrade(w) ==
    /\ wpc[w] = "degrade"
    /\ isHealthy' = FALSE
    /\ wpc' = [wpc EXCEPT ![w] = "fallback"]
    /\ UNCHANGED <<fallbackStrategy, periodicCheck, healthCheckTicker, tickC, ppc,
                   healthy, wIsHealthy, wArgs, wRet, wTrace, nWrites, nProbes,
                   nStops, observed, response>>
    /\ UNCHANGED <<retryVars, sinkVars, flusherVars, healthVars, equivVars, promVars, orderVars, mwVars>>

\* return m.fallbackStrategy.HandleFailure(ctx, name, CounterType, value, labels)
FallbackHandle(w) ==
    /\ wpc[w] = "fallback"
    /\ FallbackUsable
    /\ LET point == [id |-> wArgs[w].id, type |-> FallbackType(wArgs[w].type),
                     value |-> wArgs[w].value]
       IN /\ HandleFailureCall(point)
          /\ wTrace' = [wTrace EXCEPT ![w].handed = Append(@, point)]
    /\ wRet' = [wRet EXCEPT ![w] = NoError]
    /\ wpc' = [wpc EXCEPT ![w] = "idle"]
    /\ UNCHANGED <<fallbackStrategy, periodicCheck, isHealthy, healthCheckTicker,
                   tickC, ppc, healthy, wIsHealthy, wArgs, nWrites, nProbes, nStops,
                   observed, response>>
    /\ UNCHANGED <<retryVars, flusherVars, healthVars, equivVars, promVars, orderVars, mwVars>>

\* return ErrMonitoringSystemUnavailable
FallbackUnavailable(w) ==
    /\ wpc[w] = "fallback"
    /\ ~FallbackUsable
    /\ wRet' = [wRet EXCEPT ![w] = ErrMonitoringSystemUnavailable]
    /\ wpc' = [wpc EXCEPT ![w] = "idle"]
    /\ UNCHANGED <<fallbackStrategy, periodicCheck, isHealthy, healthCheckTicker,
                   tickC, ppc, healthy, wIsHealthy, wArgs, wTrace, nWrites, nProbes,
                   nStops, observed, response>>
    /\ UNCHANGED <<retryVars, sinkVars, flusherVars, healthVars, equivVars, promVars, orderVars, mwVars>>

\* the ticker puts a tick into its channel (capacity one)
HealthTick ==
    /\ healthCheckTicker = "running"
    /\ ~tickC
    /\ nProbes < MaxProbes
    /\ nProbes' = nProbes + 1
    /\ tickC' = TRUE
    /\ UNCHANGED <<fallbackStrategy, periodicCheck, isHealthy, healthCheckTicker,
                   ppc, healthy, wpc, wIsHealthy, wArgs, wRet, wTrace, nWrites,
                   nStops, observed, response>>
    /\ UNCHANGED <<retryVars, sinkVars, flusherVars, healthVars, equivVars, promVars, orderVars, mwVars>>

\* periodicHealthCheck: for range C { healthy, _ := m.primaryMonitor.IsHealthy(ctx)
ProbeCheck ==
    /\ ppc = "range"
    /\ tickC
    /\ tickC' = FALSE
    /\ healthy' \in BOOLEAN
    /\ ppc' = "write"
    /\ UNCHANGED <<fallbackStrategy, periodicCheck, isHealthy, healthCheckTicker,
                   wpc, wIsHealthy, wArgs, wRet, wTrace, nWrites, nProbes, nStops,
                   observed, response>>
    /\ UNCHANGED <<retryVars, sinkVars, flusherVars, healthVars, equivVars, promVars, orderVars, mwVars>>

\* periodicHealthCheck: m.mutex.Lock(); m.isHealthy = healthy; m.mutex.Unlock()
ProbeWrite ==
    /\ ppc = "write"
    /\ isHealthy' = ProbeVerdict(healthy)
    /\ ppc' = "range"
    /\ UNCHANGED <<fallbackStrategy, periodicCheck, healthCheckTicker, tickC,
                   healthy, wpc, wIsHealthy, wArgs, wRet, wTrace, nWrites, nProbes,
                   nStops, observed, response>>
    /\ UNCHANGED <<retryVars, sinkVars, flusherVars, healthVars, equivVars, promVars, orderVars, mwVars>>

\* MonitorWithFallback.IsHealthy: RLock; return m.isHealthy, nil
IsHealthyCall ==
    /\ observed' = IF isHealthy THEN "healthy" ELSE "degraded"
    /\ UNCHANGED response
    /\ UNCHANGED <<fallbackStrategy, periodicCheck, isHealthy, healthCheckTicker,
                   tickC, ppc, healthy, wpc, wIsHealthy, wArgs, wRet, wTrace,
                   nWrites, nProbes, nStops>>
    /\ UNCHANGED <<retryVars, sinkVars, flusherVars, healthVars, equivVars, promVars, orderVars, mwVars>>

\* MonitorWithFallback.Stop: if m.healthCheckTicker != nil { Stop() }
FacadeStop ==
    /\ nStops < MaxFacadeStops
    /\ nStops' = nStops + 1
    /\ healthCheckTicker' = IF healthCheckTicker # "nil" THEN "stopped" ELSE "nil"
    /\ UNCHANGED <<fallbackStrategy, periodicCheck, isHealthy, tickC, ppc, healthy,
                   wpc, wIsHealthy, wArgs, wRet, wTrace, nWrites, nProbes,
                   observed, response>>
    /\ UNCHANGED <<retryVars, sinkVars, flusherVars, healthVars, equivVars, promVars, orderVars, mwVars>>

FacadeNext ==
    \/ \E w \in Procs : WriteRead(w, "counter", "1.0")
    \/ \E w \in Procs : PrimaryOk(w)
    \/ \E w \in Procs : PrimaryErr(w)
    \/ \E w \in Procs : Degrade(w)
    \/ \E w \in Procs : FallbackHandle(w)
    \/ \E w \in Procs : FallbackUnavailable(w)
    \/ HealthTick
    \/ ProbeCheck
    \/ ProbeWrite
    \/ IsHealthyCall
    \/ FacadeStop

FacadeSpecInit == RetryIdle /\ SinkInit /\ FacadeInit /\ FlusherIdle /\ HealthIdle /\ EquivIdle
    /\ PromIdle /\ OrderIdle /\ MwIdle

FacadeSpec == FacadeSpecInit /\ [][FacadeNext]_vars

\* Mutant: the handler reports the monitoring as UP whatever IsHealthy says.
HandlerResponseAlwaysUp(h) ==
    [isHealthy |-> h, code |-> 200, status |-> "UP", monitoring |-> "UP",
     notes |-> FALSE]

\* middleware.HealthCheckHandler: the two c.JSON calls; h is what
\* monitor.IsHealthy(c) returned, notes is the presence of the "notes" detail
HandlerResponse(h) ==
    IF h
    THEN [isHealthy |-> h, code |-> 200, status |-> "UP", monitoring |-> "UP",
          notes |-> FALSE]
    ELSE [isHealthy |-> h, code |-> 200, status |-> "UP", monitoring |-> "DOWN",
          notes |-> TRUE]

\* A request to the health endpoint: isHealthy, _ := monitor.IsHealthy(c), then
\* the answer
HealthCheckHandler ==
    /\ response' = HandlerResponse(isHealthy)
    /\ UNCHANGED <<fallbackStrategy, periodicCheck, isHealthy, healthCheckTicker,
                   tickC, ppc, healthy, wpc, wIsHealthy, wArgs, wRet, wTrace,
                   nWrites, nProbes, nStops, observed>>
    /\ UNCHANGED <<retryVars, sinkVars, flusherVars, healthVars, equivVars, promVars, orderVars, mwVars>>

\* The facade with one writing goroutine, which draws the method and the
\* value of each write, and requests to the health endpoint.
FacadeCallNext ==
    \/ \E t \in MetricTypes, v \in PointValues : WriteRead(1, t, v)
    \/ PrimaryOk(1)
    \/ PrimaryErr(1)
    \/ Degrade(1)
    \/ FallbackHandle(1)
    \/ FallbackUnavailable(1)
    \/ HealthTick
    \/ ProbeCheck
    \/ ProbeWrite
    \/ IsHealthyCall
    \/ FacadeStop
    \/ HealthCheckHandler

FacadeCallSpec == FacadeSpecInit /\ [][FacadeCallNext]_vars

(***************************************************************************)
(* healthcheck.Checker.  AddCheck appends under the write lock; RunChecks  *)
(* holds the read lock from start to return and executes the checks one    *)
(* by one.  A check is its name and its variant (HTTPCheck or CustomCheck);*)
(* what Execute returns is the environment's choice among the pairs the    *)
(* variant can produce.                                                    *)
(***************************************************************************)
StatusUp == "UP"

StatusDown == "DOWN"

CheckNames == {"a", "b"}

\* the error a failing probe returns
CheckError == [ptr |-> "e1", text |-> <<"e1">>, wraps |-> {}]

\* HTTPCheck.Execute: (StatusDown, err) on every failure, else (StatusUp, nil)
HTTPOutcomes ==
    {[status |-> StatusUp, err |-> NoError], [status |-> StatusDown, err |-> CheckError]}

\* CustomCheck.Execute: return c.fn(ctx), any status with or without an error
CustomOutcomes == [status : {StatusUp, StatusDown}, err : {NoError, CheckError}]

ExecuteOutcomes(check) ==
    IF check.kind = "http" THEN HTTPOutcomes ELSE CustomOutcomes

Checks == [name : CheckNames, kind : {"http", "custom"}]

\* AggregateResult{Status: StatusUp, Details: make(map[string]Result)};
\* the map is the set of its values, one per key (Name)
EmptyAggregate == [Status |-> StatusUp, Details |-> {}]

\* Mutant: an error also turns the aggregate Down.
TurnsDownOnError(status, e) == status = StatusDown \/ e # NoError

\* if status == StatusDown { aggregateResult.Status = StatusDown }
TurnsDown(status, e) == status = StatusDown

\* result := Result{Name, Status}; if err != nil { result.Error = err.Error() }
CheckResultOf(check, o) ==
    [Name |-> check.name, Status |-> o.status,
     Error |-> IF o.err # NoError THEN o.err.text ELSE <<>>]

\* one iteration of the loop of RunChecks on check with outcome o
Record(agg, check, o) ==
    [Status |-> IF TurnsDown(o.status, o.err) THEN StatusDown ELSE agg.Status,
     Details |-> {r \in agg.Details : r.Name # check.name}
                 \cup {CheckResultOf(check, o)}]

RECURSIVE RunLoop(_, _, _, _)
RunLoop(cs, outs, i, agg) ==
    IF i > Len(cs) THEN agg
    ELSE RunLoop(cs, outs, i + 1, Record(agg, cs[i], outs[i]))

\* what RunChecks returns on checks cs when their Execute returns outs
RunChecksResult(cs, outs) == RunLoop(cs, outs, 1, EmptyAggregate)

\* s without its element i
RemoveAt(s, i) == [j \in 1 .. (Len(s) - 1) |-> IF j < i THEN s[j] ELSE s[j + 1]]

\* AddCheck: Lock; c.checks = append(c.checks, check); Unlock
AddCheck(check) ==
    /\ rpc = "idle"
    /\ Len(checks) < MaxChecks
    /\ checks' = Append(checks, check)
    /\ UNCHANGED <<rpc, aggregateResult, result, ranOn, executed, outcomes, nRuns>>
    /\ UNCHANGED <<retryVars, sinkVars, facadeVars, flusherVars, equivVars, promVars, orderVars, mwVars>>

\* RunChecks on an empty checker: return aggregateResult
RunChecksEmpty ==
    /\ rpc = "idle"
    /\ nRuns < MaxRuns
    /\ Len(checks) = 0
    /\ nRuns' = nRuns + 1
    /\ aggregateResult' = EmptyAggregate
    /\ result' = EmptyAggregate
    /\ ranOn' = checks
    /\ executed' = <<>>
    /\ outcomes' = <<>>
    /\ UNCHANGED <<checks, rpc>>
    /\ UNCHANGED <<retryVars, sinkVars, facadeVars, flusherVars, equivVars, promVars, orderVars, mwVars>>

\* RunChecks: RLock; aggregateResult := ...; enter the loop
RunChecksStart ==
    /\ rpc = "idle"
    /\ nRuns < MaxRuns
    /\ Len(checks) > 0
    /\ nRuns' = nRuns + 1
    /\ aggregateResult' = EmptyAggregate
    /\ result' = NoResult
    /\ ranOn' = checks
    /\ executed' = <<>>
    /\ outcomes' = <<>>
    /\ rpc' = "loop"
    /\ UNCHANGED checks
    /\ UNCHANGED <<retryVars, sinkVars, facadeVars, flusherVars, equivVars, promVars, orderVars, mwVars>>

\* one iteration: status, err := check.Execute(ctx); record the result
ExecuteCheck ==
    /\ rpc = "loop"
    /\ Len(executed) < Len(checks)
    /\ LET i == Len(executed) + 1
       IN \E o \in ExecuteOutcomes(checks[i]) :
            /\ aggregateResult' = Record(aggregateResult, checks[i], o)
            /\ executed' = Append(executed, i)
            /\ outcomes' = Append(outcomes, o)
    /\ UNCHANGED <<checks, rpc, result, ranOn, nRuns>>
    /\ UNCHANGED <<retryVars, sinkVars, facadeVars, flusherVars, equivVars, promVars, orderVars, mwVars>>

\* the loop is over: return aggregateResult (the deferred RUnlock runs)
RunChecksReturn ==
    /\ rpc = "loop"
    /\ Len(executed) = Len(checks)
    /\ result' = aggregateResult
    /\ rpc' = "idle"
    /\ UNCHANGED <<checks, aggregateResult, ranOn, executed, outcomes, nRuns>>
    /\ UNCHANGED <<retryVars, sinkVars, facadeVars, flusherVars, equivVars, promVars, orderVars, mwVars>>

HealthNext ==
    \/ \E check \in Checks : AddCheck(check)
    \/ RunChecksEmpty
    \/ RunChecksStart
    \/ ExecuteCheck
    \/ RunChecksReturn

HealthSpecInit == RetryIdle /\ SinkIdle /\ FacadeIdle /\ FlusherIdle /\ HealthIdle /\ EquivIdle
    /\ PromIdle /\ OrderIdle /\ MwIdle

HealthSpec == HealthSpecInit /\ [][HealthNext]_vars

(***************************************************************************)
(* monitors.PeriodicFlusher on a LocalLoggingFallback.  Goroutine MainProc *)
(* calls Start and Stop (and, like the other goroutines but LoopProc,      *)
(* HandleFailure); LoopProc is the goroutine Start spawns.  The Flush      *)
(* calls of Stop and of the loop run through the sink's own Flush steps.   *)
(* A second loop goroutine (Start after Stop) shares LoopProc's position.  *)
(***************************************************************************)
MainProc == 1

LoopProc == NumProcs

Producers == Procs \ {LoopProc}

\* Flush: l.mutex.Lock(), entered by goroutine p
FlushEnter(p) ==
    /\ spc[p] = "idle"
    /\ MutexLock(p)
    /\ nFlush' = nFlush + 1
    /\ spc' = [spc EXCEPT ![p] = "f_flush"]
    /\ streakStart' = IF streak = <<>> THEN buffer ELSE streakStart
    /\ UNCHANGED <<enabled, maxSize, buffer, fbLog, metricData, hfRet, nextId,
                   accepted, streak>>

FlusherInit == FlusherIdle /\ enabled /\ maxSize \in {1, MaxCap}

\* a goroutine other than LoopProc starts HandleFailure
Produce(p) ==
    /\ p = MainProc => mpc = "idle"
    /\ nextId < MaxFlusherPoints
    /\ HFCreate(p)

\* Start
FlusherStart ==
    /\ mpc = "idle"
    /\ spc[MainProc] = "idle"
    /\ nStarts < MaxStarts
    /\ nStarts' = nStarts + 1
    /\ IF isRunning
       THEN UNCHANGED <<isRunning, ticker, flushTickC, loops>>
       ELSE /\ ticker' = "running"
            /\ flushTickC' = FALSE
            /\ isRunning' = TRUE
            /\ loops' = loops + 1
    /\ lastCall' = "Start"
    /\ UNCHANGED <<stopChan, stopOnce, mpc, lpc, nStopCalls, nTicks, stopFlushes,
                   atStop, stopsDone, panicked>>
    /\ UNCHANGED <<retryVars, sinkVars, facadeVars, healthVars, equivVars, promVars, orderVars, mwVars>>

\* p.ticker puts a tick into its channel (capacity one)
FlusherTick ==
    /\ ticker = "running"
    /\ ~flushTickC
    /\ nTicks < MaxTicks
    /\ nTicks' = nTicks + 1
    /\ flushTickC' = TRUE
    /\ UNCHANGED <<isRunning, ticker, stopChan, stopOnce, loops, mpc, lpc, nStarts,
                   nStopCalls, stopFlushes, atStop, stopsDone, panicked, lastCall>>
    /\ UNCHANGED <<retryVars, sinkVars, facadeVars, healthVars, equivVars, promVars, orderVars, mwVars>>

\* loop: select takes case <-p.ticker.C
LoopTake ==
    /\ loops > 0
    /\ lpc = "select"
    /\ spc[LoopProc] = "idle"
    /\ flushTickC
    /\ flushTickC' = FALSE
    /\ lpc' = "flush"
    /\ UNCHANGED <<isRunning, ticker, stopChan, stopOnce, loops, mpc, nStarts,
                   nStopCalls, nTicks, stopFlushes, atStop, stopsDone, panicked, lastCall>>
    /\ UNCHANGED <<retryVars, sinkVars, facadeVars, healthVars, equivVars, promVars, orderVars, mwVars>>

\* loop: p.fallback.Flush() takes the sink's lock
LoopFlush ==
    /\ lpc = "flush"
    /\ FlushEnter(LoopProc)
    /\ lpc' = "select"
    /\ UNCHANGED <<isRunning, ticker, flushTickC, stopChan, stopOnce, loops, mpc,
                   nStarts, nStopCalls, nTicks, stopFlushes, atStop, stopsDone,
                   panicked, lastCall>>
    /\ UNCHANGED <<retryVars, facadeVars, healthVars, equivVars, promVars, orderVars, mwVars>>

\* loop: select takes case <-p.stopChan: return
LoopReturn ==
    /\ loops > 0
    /\ lpc = "select"
    /\ spc[LoopProc] = "idle"
    /\ stopChan = "closed"
    /\ loops' = loops - 1
    /\ UNCHANGED <<isRunning, ticker, flushTickC, stopChan, stopOnce, mpc, lpc,
                   nStarts, nStopCalls, nTicks, stopFlushes, atStop, stopsDone,
                   panicked, lastCall>>
    /\ UNCHANGED <<retryVars, sinkVars, facadeVars, healthVars, equivVars, promVars, orderVars, mwVars>>

\* Mutant: Stop does not flush.
StopFlushSkipped ==
    /\ mpc = "stop_flush"
    /\ mpc' = "stop_wait"
    /\ UNCHANGED <<isRunning, ticker, flushTickC, stopChan, stopOnce, loops, lpc,
                   nStarts, nStopCalls, nTicks, stopFlushes, atStop, stopsDone,
                   panicked, lastCall>>
    /\ UNCHANGED <<retryVars, sinkVars, facadeVars, healthVars, equivVars, promVars, orderVars, mwVars>>

\* Stop, up to the final flush: stopOnce.Do; if isRunning { close(stopChan);
\* ticker.Stop(); isRunning = false; ... }
FlusherStop ==
    /\ mpc = "idle"
    /\ spc[MainProc] = "idle"
    /\ nStopCalls < MaxStops
    /\ nStopCalls' = nStopCalls + 1
    /\ lastCall' = "Stop"
    /\ stopOnce' = TRUE
    /\ IF ~stopOnce /\ isRunning
       THEN /\ panicked' = (panicked \/ stopChan = "closed")
            /\ stopChan' = "closed"
            /\ ticker' = "stopped"
            /\ isRunning' = FALSE
            /\ atStop' = accepted
            /\ mpc' = "stop_flush"
            /\ UNCHANGED stopsDone
       ELSE /\ stopsDone' = stopsDone + 1
            /\ UNCHANGED <<panicked, stopChan, ticker, isRunning, atStop, mpc>>
    /\ UNCHANGED <<flushTickC, loops, lpc, nStarts, nTicks, stopFlushes>>
    /\ UNCHANGED <<retryVars, sinkVars, facadeVars, healthVars, equivVars, promVars, orderVars, mwVars>>

\* Stop: p.fallback.Flush() takes the sink's lock
StopFlush ==
    /\ mpc = "stop_flush"
    /\ FlushEnter(MainProc)
    /\ stopFlushes' = stopFlushes + 1
    /\ mpc' = "stop_wait"
    /\ UNCHANGED <<isRunning, ticker, flushTickC, stopChan, stopOnce, loops, lpc,
                   nStarts, nStopCalls, nTicks, atStop, stopsDone, panicked, lastCall>>
    /\ UNCHANGED <<retryVars, facadeVars, healthVars, equivVars, promVars, orderVars, mwVars>>

\* Stop: Flush has returned, stopOnce.Do returns, Stop returns
StopReturn ==
    /\ mpc = "stop_wait"
    /\ spc[MainProc] = "idle"
    /\ mpc' = "idle"
    /\ stopsDone' = stopsDone + 1
    /\ UNCHANGED <<isRunning, ticker, flushTickC, stopChan, stopOnce, loops, lpc,
                   nStarts, nStopCalls, nTicks, stopFlushes, atStop, panicked, lastCall>>
    /\ UNCHANGED <<retryVars, sinkVars, facadeVars, healthVars, equivVars, promVars, orderVars, mwVars>>

FlusherNext ==
    \/ \E p \in Producers : Produce(p)
    \/ \E p \in Producers : HFLock(p)
    \/ \E p \in Producers : HFCheck(p)
    \/ \E p \in Producers : HFFlush(p)
    \/ \E p \in Producers : HFClear(p)
    \/ \E p \in Producers : HFAppend(p)
    \/ \E p \in {MainProc, LoopProc} : FFlush(p)
    \/ \E p \in {MainProc, LoopProc} : FClear(p)
    \/ FlusherStart
    \/ FlusherTick
    \/ LoopTake
    \/ LoopFlush
    \/ LoopReturn
    \/ FlusherStop
    \/ StopFlush
    \/ StopReturn

FlusherSpecInit == RetryIdle /\ SinkInit /\ FacadeIdle /\ FlusherInit /\ HealthIdle /\ EquivIdle
    /\ PromIdle /\ OrderIdle /\ MwIdle

FlusherSpec == FlusherSpecInit /\ [][FlusherNext]_vars

(***************************************************************************)
(* monitors.PrometheusMonitor.  Counter, Gauge and Histogram start with    *)
(* getOrCreateCounter / getOrCreateGauge / getOrCreateHistogram, which     *)
(* hold p.mutex from entry to return.  A vector (CounterVec, GaugeVec,     *)
(* HistogramVec) is identified by its handle, the position of its creation *)
(* in `created`.  The registry is private to the monitor; it refuses a     *)
(* second collector of a name with AlreadyRegisteredError, which carries   *)
(* the collector already registered.                                       *)
(***************************************************************************)
\* Mutant: the lock is taken without waiting for its holder.
PromLockNoWait(p) == pmMutex' = p

\* p.mutex.Lock()
PromLock(p) ==
    /\ pmMutex = 0
    /\ pmMutex' = p

\* defer p.mutex.Unlock()
PromUnlock == pmMutex' = 0

\* the collector registered under the name, if any
Registered(name) == { c \in registry : c.name = name }

\* return of getOrCreate*: the deferred Unlock runs
GetReturn(p, h, e) ==
    /\ gRet' = [gRet EXCEPT ![p] = [handle |-> h, err |-> e]]
    /\ got' = got \cup {[proc |-> p, kind |-> gArgs[p].kind, name |-> gArgs[p].name,
                          handle |-> h, err |-> e]}
    /\ gpc' = [gpc EXCEPT ![p] = "idle"]
    /\ gArgs' = [gArgs EXCEPT ![p] = NoCall]
    /\ PromUnlock

\* Counter / Gauge / Histogram call getOrCreate*, which takes the lock
GetEnter(p, k, n) ==
    /\ gpc[p] = "idle"
    /\ nGets < MaxGets
    /\ PromLock(p)
    /\ nGets' = nGets + 1
    /\ gArgs' = [gArgs EXCEPT ![p] = [kind |-> k, name |-> n, vec |-> 0]]
    /\ gpc' = [gpc EXCEPT ![p] = "lookup"]
    /\ UNCHANGED <<vecs, registry, gRet, created, got>>
    /\ UNCHANGED <<retryVars, sinkVars, facadeVars, flusherVars, healthVars, equivVars, orderVars, mwVars>>

\* if counter, ok := p.counters[name]; ok { return counter, nil }
GetLookup(p) ==
    /\ gpc[p] = "lookup"
    /\ IF vecs[gArgs[p].kind][gArgs[p].name] # 0
       THEN GetReturn(p, vecs[gArgs[p].kind][gArgs[p].name], "nil")
       ELSE /\ gpc' = [gpc EXCEPT ![p] = "create"]
            /\ UNCHANGED <<pmMutex, gArgs, gRet, got>>
    /\ UNCHANGED <<vecs, registry, created, nGets>>
    /\ UNCHANGED <<retryVars, sinkVars, facadeVars, flusherVars, healthVars, equivVars, orderVars, mwVars>>

\* counter := prometheus.NewCounterVec(...)
GetCreate(p) ==
    /\ gpc[p] = "create"
    /\ created' = Append(created, [kind |-> gArgs[p].kind, name |-> gArgs[p].name])
    /\ gArgs' = [gArgs EXCEPT ![p].vec = Len(created) + 1]
    /\ gpc' = [gpc EXCEPT ![p] = "register"]
    /\ UNCHANGED <<vecs, registry, pmMutex, gRet, got, nGets>>
    /\ UNCHANGED <<retryVars, sinkVars, facadeVars, flusherVars, healthVars, equivVars, orderVars, mwVars>>

\* p.registry.Register(counter) succeeds: p.counters[name] = counter;
\* return counter, nil
GetRegister(p) ==
    /\ gpc[p] = "register"
    /\ Registered(gArgs[p].name) = {}
    /\ registry' = registry \cup {[name |-> gArgs[p].name, kind |-> gArgs[p].kind,
                                    handle |-> gArgs[p].vec]}
    /\ vecs' = [vecs EXCEPT ![gArgs[p].kind][gArgs[p].name] = gArgs[p].vec]
    /\ GetReturn(p, gArgs[p].vec, "nil")
    /\ UNCHANGED <<created, nGets>>
    /\ UNCHANGED <<retryVars, sinkVars, facadeVars, flusherVars, healthVars, equivVars, orderVars, mwVars>>

\* Register fails with AlreadyRegisteredError.  If the existing collector is of
\* the caller's type: p.counters[name] = counterVec; return counterVec, nil;
\* else: return nil, err
GetAlreadyRegistered(p) ==
    /\ gpc[p] = "register"
    /\ \E c \in Registered(gArgs[p].name) :
        IF c.kind = gArgs[p].kind
        THEN /\ vecs' = [vecs EXCEPT ![gArgs[p].kind][gArgs[p].name] = c.handle]
             /\ GetReturn(p, c.handle, "nil")
        ELSE /\ GetReturn(p, 0, "error")
             /\ UNCHANGED vecs
    /\ UNCHANGED <<registry, created, nGets>>
    /\ UNCHANGED <<retryVars, sinkVars, facadeVars, flusherVars, healthVars, equivVars, orderVars, mwVars>>

PromNext ==
    \/ \E p \in Procs, k \in MetricKinds, n \in MetricNames : GetEnter(p, k, n)
    \/ \E p \in Procs : GetLookup(p)
    \/ \E p \in Procs : GetCreate(p)
    \/ \E p \in Procs : GetRegister(p)
    \/ \E p \in Procs : GetAlreadyRegistered(p)

PromSpecInit == RetryIdle /\ SinkIdle /\ FacadeIdle /\ FlusherIdle /\ HealthIdle /\ EquivIdle
    /\ PromIdle /\ OrderIdle /\ MwIdle

PromSpec == PromSpecInit /\ [][PromNext]_vars

(***************************************************************************)
(* retry.Do and retry.DoWithContext as functions of their inputs: the      *)
(* config, what fn returns at each invocation (outs) and what              *)
(* rand.Float64() returns at each call of calculateNextInterval (draws).   *)
(* Each is translated from its own loop; st holds the locals.  The result  *)
(* is the number of invocations of fn, the intervals waited, in order, and *)
(* the error returned.                                                     *)
(***************************************************************************)
RunResult(st, e) == [invocations |-> st.invocations, waits |-> st.waits, ret |-> e]

Invoked(st) == [st EXCEPT !.invocations = st.invocations + 1]

\* var err error; var nextInterval time.Duration = config.InitialInterval;
\* attempt := 1
Locals(cfg) ==
    [attempt |-> FirstAttempt, err |-> NoError, nextInterval |-> cfg.InitialInterval,
     invocations |-> 0, waits |-> <<>>]

\* Mutant: Do returns the last error as it is.
DoAfterLoopBare(e) == e

\* Do, after the loop: if err != nil { return errors.New(...) }; return err
DoAfterLoop(e) ==
    IF e # NoError
    THEN errorsNew(e.text \o <<": ">> \o ErrMaxRetriesReached.text)
    ELSE e

RECURSIVE DoLoop(_, _, _, _)
\* Do: the for loop, from the test of its condition
DoLoop(cfg, outs, draws, st) ==
    IF ~(st.attempt <= cfg.MaxAttempts)
    THEN RunResult(st, DoAfterLoop(st.err))
    ELSE LET e == outs[st.invocations + 1]
         IN  IF e = NoError
             THEN RunResult(Invoked(st), NoError)
             ELSE IF st.attempt = cfg.MaxAttempts
             THEN RunResult(Invoked(st), DoAfterLoop(e))
             ELSE LET ni == calculateNextInterval(st.nextInterval, st.attempt, cfg,
                                                  draws[st.invocations + 1])
                  IN  DoLoop(cfg, outs, draws,
                             [attempt |-> st.attempt + 1, err |-> e,
                              nextInterval |-> ni,
                              invocations |-> st.invocations + 1,
                              waits |-> Append(st.waits, ni)])

DoRun(cfg, outs, draws) == DoLoop(cfg, outs, draws, Locals(cfg))

\* context.Background(): never done
NeverCancelled == [done |-> FALSE, err |-> NoError]

RECURSIVE DoWithContextLoop(_, _, _, _, _)
\* DoWithContext: the for loop, from the test of its condition, for a context
\* whose state does not change during the call
DoWithContextLoop(ctx, cfg, outs, draws, st) ==
    IF ~LoopCond(st.attempt, cfg)
    THEN RunResult(st, AfterLoop(st.err))
    ELSE IF ctx.done
    THEN RunResult(st, ctx.err)
    ELSE LET e == outs[st.invocations + 1]
         IN  IF e = NoError
             THEN RunResult(Invoked(st), NoError)
             ELSE IF IsLastAttempt(st.attempt, cfg)
             THEN RunResult(Invoked(st), AfterLoop(e))
             ELSE LET ni == calculateNextInterval(st.nextInterval, st.attempt, cfg,
                                                  draws[st.invocations + 1])
                      waited == [attempt |-> st.attempt, err |-> e,
                                 nextInterval |-> ni,
                                 invocations |-> st.invocations + 1,
                                 waits |-> Append(st.waits, ni)]
                  IN  IF ctx.done
                      THEN RunResult(waited, ctx.err)
                      ELSE DoWithContextLoop(ctx, cfg, outs, draws,
                                             [waited EXCEPT !.attempt = st.attempt + 1])

DoWithContextRun(ctx, cfg, outs, draws) ==
    DoWithContextLoop(ctx, cfg, outs, draws, Locals(cfg))

\* what fn may return at an invocation
Outcomes == {NoError} \cup OpErrors

\* the smallest and the largest value rand.Float64() returns
EdgeDraws == {Rat(0, RandDen), Rat(RandDen - 1, RandDen)}

EquivInit ==
    eqIn \in [config : Configs,
              outs : [1 .. MaxAttemptsBound -> Outcomes],
              draws : [1 .. MaxAttemptsBound - 1 -> EdgeDraws]]
    /\ eqDo = NotRun
    /\ eqCtx = NotRun

\* retry.Do(fn, config)
CallDo ==
    /\ eqDo = NotRun
    /\ eqDo' = DoRun(eqIn.config, eqIn.outs, eqIn.draws)
    /\ UNCHANGED <<eqIn, eqCtx>>
    /\ UNCHANGED <<retryVars, sinkVars, facadeVars, flusherVars, healthVars, promVars, orderVars, mwVars>>

\* retry.DoWithContext(context.Background(), fn, config)
CallDoWithContext ==
    /\ eqCtx = NotRun
    /\ eqCtx' = DoWithContextRun(NeverCancelled, eqIn.config, eqIn.outs, eqIn.draws)
    /\ UNCHANGED <<eqIn, eqDo>>
    /\ UNCHANGED <<retryVars, sinkVars, facadeVars, flusherVars, healthVars, promVars, orderVars, mwVars>>

EquivNext ==
    \/ CallDo
    \/ CallDoWithContext

EquivSpecInit == RetryIdle /\ SinkIdle /\ FacadeIdle /\ FlusherIdle /\ HealthIdle /\ EquivInit
    /\ PromIdle /\ OrderIdle /\ MwIdle

EquivSpec == EquivSpecInit /\ [][EquivNext]_vars

(***************************************************************************)
(* service.Service.CreateOrder.  Goroutines (requests) create orders; the  *)
(* payment is made through retry.DoWithContext with the service's          *)
(* retryConfig, and the order is stored under ordersMutex in one step.     *)
(* The ID (time.Now().UnixNano()) is taken to be fresh for every call.     *)
(***************************************************************************)
OrderStatusPending == "pending"

OrderStatusPaid == "paid"

OrderStatusCancelled == "cancelled"

\* The policies a Service can be built with: main takes MaxAttempts from the
\* configuration (viper), unchecked.
ServiceConfigs ==
    { [NoJitterConfig EXCEPT !.MaxAttempts = n] : n \in 0 .. MaxAttemptsBound }

\* the contexts of a request: live, or already done
RequestContexts == {NeverCancelled} \cup { [done |-> TRUE, err |-> e] : e \in CtxErrors }

\* what ProcessPayment may return: nil, or an error of the payment service
PaymentOutcomes ==
    {NoError, [ptr |-> "payment", text |-> <<"payment failed">>, wraps |-> {}]}

\* the jitter does not matter to the order: rand.Float64() returns 0
ZeroDraws == [i \in 1 .. MaxAttemptsBound - 1 |-> Rat(0, RandDen)]

\* errors.New("payment processing failed after retries: " + err.Error())
PaymentFailed(e) ==
    errorsNew(<<"payment processing failed after retries: ">> \o e.text)

\* order.Status = models.OrderStatusCancelled / models.OrderStatusPaid
FinalStatus(e) == IF e # NoError THEN OrderStatusCancelled ELSE OrderStatusPaid

OrderInit ==
    /\ retryConfig \in ServiceConfigs
    /\ orders = {}
    /\ opc = [p \in Procs |-> "idle"]
    /\ order = [p \in Procs |-> NoOrder]
    /\ payErr = [p \in Procs |-> NotReturned]
    /\ oRet = [p \in Procs |-> NotReturned]
    /\ notifiers = {}
    /\ notified = {}
    /\ paidOk = {}
    /\ oReturned = {}
    /\ nOrders = 0

\* CreateOrder, up to the payment: order.ID = ...; order.Status = Pending
CreateOrderBegin(p) ==
    /\ opc[p] = "idle"
    /\ nOrders < MaxOrders
    /\ nOrders' = nOrders + 1
    /\ order' = [order EXCEPT ![p] = [ID |-> nOrders + 1, Status |-> OrderStatusPending]]
    /\ opc' = [opc EXCEPT ![p] = "pay"]
    /\ UNCHANGED <<retryConfig, orders, payErr, oRet, notifiers, notified, paidOk,
                   oReturned>>
    /\ UNCHANGED <<retryVars, sinkVars, facadeVars, flusherVars, healthVars, equivVars,
                   promVars, mwVars>>

\* err := retry.DoWithContext(ctx, func(...) { return ProcessPayment(...) },
\* s.retryConfig); outs is what ProcessPayment returns at each invocation
ProcessPayment(p) ==
    /\ opc[p] = "pay"
    /\ \E ctx \in RequestContexts, outs \in [1 .. MaxAttemptsBound -> PaymentOutcomes] :
        LET run == DoWithContextRun(ctx, retryConfig, outs, ZeroDraws)
        IN  /\ payErr' = [payErr EXCEPT ![p] = run.ret]
            /\ paidOk' = IF run.invocations > 0 /\ outs[run.invocations] = NoError
                          THEN paidOk \cup {order[p].ID}
                          ELSE paidOk
    /\ opc' = [opc EXCEPT ![p] = "store"]
    /\ UNCHANGED <<retryConfig, orders, order, oRet, notifiers, notified, oReturned,
                   nOrders>>
    /\ UNCHANGED <<retryVars, sinkVars, facadeVars, flusherVars, healthVars, equivVars,
                   promVars, mwVars>>

\* the rest of CreateOrder: the final status, s.orders[order.ID] = order under
\* the lock, the notification goroutine after a payment, the return
StoreOrder(p) ==
    /\ opc[p] = "store"
    /\ order' = [order EXCEPT ![p].Status = FinalStatus(payErr[p])]
    /\ orders' = orders \cup {order'[p]}
    /\ notifiers' = IF payErr[p] # NoError THEN notifiers
                     ELSE notifiers \cup {order[p].ID}
    /\ oRet' = [oRet EXCEPT ![p] = IF payErr[p] # NoError THEN PaymentFailed(payErr[p])
                                    ELSE NoError]
    /\ oReturned' = oReturned \cup {[ID |-> order[p].ID, ok |-> oRet'[p] = NoError]}
    /\ opc' = [opc EXCEPT ![p] = "idle"]
    /\ UNCHANGED <<retryConfig, payErr, notified, paidOk, nOrders>>
    /\ UNCHANGED <<retryVars, sinkVars, facadeVars, flusherVars, healthVars, equivVars,
                   promVars, mwVars>>

\* the goroutine of CreateOrder: retry.DoWithContext(notificationCtx,
\* SendNotification, s.retryConfig); fn is invoked when the loop is entered
SendNotification ==
    /\ \E id \in notifiers :
        /\ notifiers' = notifiers \ {id}
        /\ notified' = IF LoopCond(FirstAttempt, retryConfig)
                        THEN notified \cup {id}
                        ELSE notified
    /\ UNCHANGED <<retryConfig, orders, opc, order, payErr, oRet, paidOk, oReturned,
                   nOrders>>
    /\ UNCHANGED <<retryVars, sinkVars, facadeVars, flusherVars, healthVars, equivVars,
                   promVars, mwVars>>

OrderNext ==
    \/ \E p \in Procs : CreateOrderBegin(p)
    \/ \E p \in Procs : ProcessPayment(p)
    \/ \E p \in Procs : StoreOrder(p)
    \/ SendNotification

OrderSpecInit == RetryIdle /\ SinkIdle /\ FacadeIdle /\ FlusherIdle /\ HealthIdle /\ EquivIdle
    /\ PromIdle /\ OrderInit /\ MwIdle

OrderSpec == OrderSpecInit /\ [][OrderNext]_vars

(***************************************************************************)
(* middleware.RetryMiddleware serving one request.  The gin chain is the   *)
(* middleware followed by one handler, which writes a status through the   *)
(* response recorder.  gin's Context.Next is                               *)
(*     c.index++                                                           *)
(*     for c.index < len(c.handlers) { c.handlers[c.index](c); c.index++ } *)
(* and the middleware itself runs as c.handlers[0] of such a loop.         *)
(***************************************************************************)
\* the chain: RetryMiddleware at index 0, the handler at index 1
ChainLen == 1 + 1

StatusOK == 200

\* DefaultRetryConfig().RetryableStatus
RetryableStatus == {500, 502, 503, 504}

\* what the handler may write
HandlerStatuses == {StatusOK, 404, 500, 503}

shouldRetry(code, retryable) == code \in retryable

\* &httpError{statusCode: w.statusCode}; Error() is http.StatusText
httpError(code) ==
    [ptr |-> "httpError",
     text |-> <<CASE code = 500 -> "Internal Server Error"
                  [] code = 502 -> "Bad Gateway"
                  [] code = 503 -> "Service Unavailable"
                  [] code = 504 -> "Gateway Timeout"
                  [] OTHER -> "">>,
     wraps |-> {}]

\* c.Next() called with c.index = i: does it reach the handler?
NextRunsHandler(i) == i + 1 < ChainLen

\* c.index after c.Next() called with c.index = i
IndexAfterNext(i) == IF NextRunsHandler(i) THEN ChainLen ELSE i + 1

\* the request enters the middleware: gin has set c.index to 0
MwInit ==
    /\ mwConfig \in [MaxAttempts : 0 .. MaxMwAttempts, ErrorHandler : BOOLEAN]
    /\ exempt \in BOOLEAN
    /\ cIndex = 0
    /\ mwpc = "enter"
    /\ mwAttempt = 0
    /\ statusCode = 0
    /\ mwErr = NoError
    /\ mwCtxDone = FALSE
    /\ handlerRuns = 0
    /\ statuses = <<>>
    /\ reported = 0

\* exempt path: c.Next(); return
MwExempt ==
    /\ mwpc = "enter"
    /\ exempt
    /\ handlerRuns' = IF NextRunsHandler(cIndex) THEN handlerRuns + 1 ELSE handlerRuns
    /\ cIndex' = IndexAfterNext(cIndex)
    /\ mwpc' = "returned"
    /\ UNCHANGED <<mwConfig, exempt, mwAttempt, statusCode, mwErr, mwCtxDone, statuses,
                   reported>>
    /\ UNCHANGED <<retryVars, sinkVars, facadeVars, flusherVars, healthVars, equivVars,
                   promVars, orderVars>>

\* w := &responseRecorder{..., statusCode: http.StatusOK}; DoWithContext
\* starts: attempt := 1
MwBegin ==
    /\ mwpc = "enter"
    /\ ~exempt
    /\ statusCode' = StatusOK
    /\ mwAttempt' = FirstAttempt
    /\ mwpc' = "loop"
    /\ UNCHANGED <<mwConfig, exempt, cIndex, mwErr, mwCtxDone, handlerRuns, statuses,
                   reported>>
    /\ UNCHANGED <<retryVars, sinkVars, facadeVars, flusherVars, healthVars, equivVars,
                   promVars, orderVars>>

\* DoWithContext: the loop condition fails; the code after the loop
MwLoopExit ==
    /\ mwpc = "loop"
    /\ ~LoopCond(mwAttempt, mwConfig)
    /\ mwErr' = AfterLoop(mwErr)
    /\ mwpc' = "after"
    /\ UNCHANGED <<mwConfig, exempt, cIndex, mwAttempt, statusCode, mwCtxDone,
                   handlerRuns, statuses, reported>>
    /\ UNCHANGED <<retryVars, sinkVars, facadeVars, flusherVars, healthVars, equivVars,
                   promVars, orderVars>>

\* DoWithContext: case <-ctx.Done(): return ctx.Err(), at the loop head or
\* during the wait
MwCtxAbort ==
    /\ \/ mwpc = "loop" /\ LoopCond(mwAttempt, mwConfig)
       \/ mwpc = "wait"
    /\ mwCtxDone
    /\ mwErr' \in CtxErrors
    /\ mwpc' = "after"
    /\ UNCHANGED <<mwConfig, exempt, cIndex, mwAttempt, statusCode, mwCtxDone,
                   handlerRuns, statuses, reported>>
    /\ UNCHANGED <<retryVars, sinkVars, facadeVars, flusherVars, healthVars, equivVars,
                   promVars, orderVars>>

\* one call of fn: w.statusCode = 200; c.Next(); shouldRetry; then what
\* DoWithContext does with the result
MwAttempt ==
    /\ mwpc = "loop"
    /\ LoopCond(mwAttempt, mwConfig)
    /\ ~mwCtxDone
    /\ IF NextRunsHandler(cIndex)
       THEN /\ statusCode' \in HandlerStatuses
            /\ handlerRuns' = handlerRuns + 1
       ELSE /\ statusCode' = StatusOK
            /\ UNCHANGED handlerRuns
    /\ cIndex' = IndexAfterNext(cIndex)
    /\ statuses' = Append(statuses, statusCode')
    /\ IF ~shouldRetry(statusCode', RetryableStatus)
       THEN /\ mwErr' = NoError
            /\ mwpc' = "after"
       ELSE IF IsLastAttempt(mwAttempt, mwConfig)
       THEN /\ mwErr' = AfterLoop(httpError(statusCode'))
            /\ mwpc' = "after"
       ELSE /\ mwErr' = httpError(statusCode')
            /\ mwpc' = "wait"
    /\ UNCHANGED <<mwConfig, exempt, mwAttempt, mwCtxDone, reported>>
    /\ UNCHANGED <<retryVars, sinkVars, facadeVars, flusherVars, healthVars, equivVars,
                   promVars, orderVars>>

\* DoWithContext: case <-timer.C: next iteration
MwWaitElapsed ==
    /\ mwpc = "wait"
    /\ mwAttempt' = mwAttempt + 1
    /\ mwpc' = "loop"
    /\ UNCHANGED <<mwConfig, exempt, cIndex, statusCode, mwErr, mwCtxDone, handlerRuns,
                   statuses, reported>>
    /\ UNCHANGED <<retryVars, sinkVars, facadeVars, flusherVars, healthVars, equivVars,
                   promVars, orderVars>>

\* the 30s timeout of ctx expires, or the request is cancelled
MwCancel ==
    /\ mwpc \in {"loop", "wait"}
    /\ ~mwCtxDone
    /\ mwCtxDone' = TRUE
    /\ UNCHANGED <<mwConfig, exempt, cIndex, mwpc, mwAttempt, statusCode, mwErr,
                   handlerRuns, statuses, reported>>
    /\ UNCHANGED <<retryVars, sinkVars, facadeVars, flusherVars, healthVars, equivVars,
                   promVars, orderVars>>

\* if err != nil && config.ErrorHandler != nil { config.ErrorHandler(c, err) }
MwFinish ==
    /\ mwpc = "after"
    /\ reported' = IF mwErr # NoError /\ mwConfig.ErrorHandler THEN reported + 1
                    ELSE reported
    /\ mwpc' = "returned"
    /\ UNCHANGED <<mwConfig, exempt, cIndex, mwAttempt, statusCode, mwErr, mwCtxDone,
                   handlerRuns, statuses>>
    /\ UNCHANGED <<retryVars, sinkVars, facadeVars, flusherVars, healthVars, equivVars,
                   promVars, orderVars>>

\* gin, after the middleware returned: c.index++ and the rest of the loop of
\* the Next that called it
GinResume ==
    /\ mwpc = "returned"
    /\ handlerRuns' = IF NextRunsHandler(cIndex) THEN handlerRuns + 1 ELSE handlerRuns
    /\ cIndex' = IndexAfterNext(cIndex)
    /\ mwpc' = "done"
    /\ UNCHANGED <<mwConfig, exempt, mwAttempt, statusCode, mwErr, mwCtxDone, statuses,
                   reported>>
    /\ UNCHANGED <<retryVars, sinkVars, facadeVars, flusherVars, healthVars, equivVars,
                   promVars, orderVars>>

MwNext ==
    \/ MwExempt
    \/ MwBegin
    \/ MwLoopExit
    \/ MwCtxAbort
    \/ MwAttempt
    \/ MwWaitElapsed
    \/ MwCancel
    \/ MwFinish
    \/ GinResume

MwSpecInit == RetryIdle /\ SinkIdle /\ FacadeIdle /\ FlusherIdle /\ HealthIdle /\ EquivIdle
    /\ PromIdle /\ OrderIdle /\ MwInit

MwSpec == MwSpecInit /\ [][MwNext]_vars

(***************************************************************************)
(* Properties of retry.Do / retry.DoWithContext (checked under RetrySpec)  *)
(***************************************************************************)

\* C1: with MaxAttempts >= 1 the operation is invoked at most MaxAttempts
\* times (Do and DoWithContext), and exactly once when the first attempt
\* returns no error.
C1_AtMostMaxAttempts ==
    config.MaxAttempts >= 1 =>
        /\ invocations <= config.MaxAttempts
        /\ (okAt = 1 => invocations = 1)

C1_Witness ==
    /\ pc = "done"
    /\ config.MaxAttempts = MaxAttemptsBound
    /\ invocations = config.MaxAttempts
    /\ okAt = 0

\* C2: as soon as an attempt returns no error the call has returned success:
\* the number of invocations is the index of that first successful attempt,
\* one wait precedes each attempt but the first and none follows the
\* success, and nothing is invoked afterwards.
C2_SuccessReturnsImmediately ==
    okAt # 0 =>
        /\ pc = "done"
        /\ ret = NoError
        /\ invocations = okAt
        /\ Len(waits) = okAt - 1

C2_Witness ==
    /\ mode = "DoWithContext"
    /\ okAt = 2
    /\ pc = "done"

\* C3: when the context is cancelled during the backoff wait that follows
\* failed attempt k, the operation is not invoked again (the count stays k,
\* which is below MaxAttempts) and the call returns ctx.Err().
C3_CancelDuringWait ==
    cancelAt.pc = "wait" =>
        /\ invocations = cancelAt.attempt
        /\ cancelAt.attempt < config.MaxAttempts
        /\ (pc = "done" => ret = ctxErr /\ ret \in CtxErrors)

C3_Witness ==
    /\ cancelAt.pc = "wait"
    /\ cancelAt.attempt = 2
    /\ pc = "done"

\* The call returned because every one of MaxAttempts attempts failed.
Exhausted ==
    /\ pc = "done"
    /\ config.MaxAttempts >= 1
    /\ invocations = config.MaxAttempts
    /\ err # NoError

\* C4: on exhaustion the returned error wraps ErrMaxRetriesReached and the
\* last attempt's error: a caller finds both with errors.Is.
C4_ExhaustionWrapsCause ==
    Exhausted =>
        /\ errorsIs(ret, ErrMaxRetriesReached)
        /\ errorsIs(ret, err)

RECURSIVE Unjittered(_, _)
\* min(MaxInterval, InitialInterval * Multiplier^n)
Unjittered(cfg, n) ==
    IF n = 0 THEN FMin(FInt(cfg.InitialInterval), FInt(cfg.MaxInterval))
    ELSE FMin(FMul(Unjittered(cfg, n - 1), cfg.Multiplier), FInt(cfg.MaxInterval))

\* d lies within +/- RandomizationFactor of base, clamped at MaxInterval
\* (whole nanoseconds: the lower end is rounded down).
WithinJitter(d, base, cfg) ==
    LET delta == FMul(base, cfg.RandomizationFactor)
    IN  /\ FSub(base, delta).w <= d
        /\ FLe(FInt(d), FMin(FAdd(base, delta), FInt(cfg.MaxInterval)))

\* C5: every interval waited on is within [0, MaxInterval] and within
\* +/- RandomizationFactor of the un-jittered exponential value of its
\* retry (the k-th wait is compared with exponent k and with exponent k-1,
\* either reading of "for that retry" is accepted).
C5_IntervalWithinJitterOfExponential ==
    config.MaxAttempts >= 1 =>
        \A k \in 1 .. Len(waits) :
            /\ 0 <= waits[k]
            /\ waits[k] <= config.MaxInterval
            /\ \/ WithinJitter(waits[k], Unjittered(config, k), config)
               \/ WithinJitter(waits[k], Unjittered(config, k - 1), config)

\* C6: without jitter the first wait is InitialInterval and each later one
\* is min(MaxInterval, previous * Multiplier); the policy {3, 100ms, 1s, 2}
\* with two failures and a success waits 100ms then 200ms, invokes three
\* times and returns success.
C6_NoJitterWaits ==
    config.RandomizationFactor.num = 0 /\ config.MaxAttempts >= 1 =>
        /\ \A k \in 1 .. Len(waits) :
              waits[k] = FTrunc(Unjittered(config, k - 1))
        /\ (config = NoJitterConfig /\ okAt = 3 =>
              /\ invocations = 3
              /\ waits = <<100 * Millisecond, 200 * Millisecond>>
              /\ ret = NoError)

(***************************************************************************)
(* Properties of LocalLoggingFallback (checked under SinkSpec)             *)
(***************************************************************************)
IsInfo(e) == e.level = "info"

\* The flush records of the log, oldest first.
FlushRecords == SelectSeq(fbLog, IsInfo)

RECURSIVE Flatten(_)
\* The points of a sequence of records, in order.
Flatten(recs) ==
    IF recs = <<>> THEN <<>> ELSE Head(recs).metrics \o Flatten(Tail(recs))

\* Goroutines between Lock and Unlock.
InCritical == { p \in Procs : spc[p] \notin {"idle", "hf_lock"} }

\* No goroutine is between the log write and the reset of flushBuffer.
NoFlushInProgress == \A p \in Procs : spc[p] \notin {"hf_clear", "f_clear"}

\* C7: the buffer never holds more than maxSize points, whatever the
\* sequence of HandleFailure and Flush calls, failed flushes included.
C7_BufferWithinCapacity == Len(buffer) <= maxSize

\* C8: HandleFailure's flush-then-append and Flush exclude each other, and
\* every accepted point is in exactly one place, a flush record or the
\* buffer: the records followed by the buffer hold the accepted points,
\* each once.
C8_NoLossNoDuplication ==
    /\ Cardinality(InCritical) <= 1
    /\ \A p \in InCritical : mutex = p
    /\ NoFlushInProgress =>
          LET held == Flatten(FlushRecords) \o buffer
          IN  /\ Len(held) = Len(accepted)
              /\ \A i \in 1 .. Len(accepted) :
                    Cardinality({ j \in 1 .. Len(held) : held[j] = accepted[i] }) = 1

C8_Witness ==
    \E p, q \in Procs :
        /\ spc[p] = "hf_clear"
        /\ spc[q] = "hf_lock"
        /\ FlushRecords # <<>>

\* C9: a flush record holds the points of one buffer generation in append
\* order (the records followed by the buffer are the accepted points in
\* order), and with capacity 2 the appends A, B, C leave one record [A,B]
\* and the buffer [C].
C9_RecordIsOneGeneration ==
    NoFlushInProgress /\ InCritical = {} =>
        /\ Flatten(FlushRecords) \o buffer = accepted
        /\ (maxSize = 2 /\ nFlush = 0 /\ Len(accepted) = 3 =>
              /\ FlushRecords = <<InfoEntry(<<accepted[1], accepted[2]>>)>>
              /\ buffer = <<accepted[3]>>)

\* C10 as stated: Flush on an empty buffer writes nothing; of Flush calls in
\* a row on a non-empty buffer the first writes the one record and the
\* later ones do nothing.
C10_FlushTwiceOneRecord ==
    \A i \in 1 .. Len(streak) :
        streak[i] = IF streakStart # <<>> /\ i = 1 THEN "record" ELSE "noop"

\* C10 amended: Flush on an empty buffer writes nothing and leaves the
\* buffer empty.  Of Flush calls in a row (no HandleFailure in between) on a
\* non-empty buffer that json.Marshal accepts, the first writes the one
\* record and empties the buffer, the later ones do nothing; on a buffer
\* that json.Marshal rejects, every call logs the error, writes no record
\* and leaves the buffer as it was.
C10_FlushIdempotent ==
    /\ \A i \in 1 .. Len(streak) :
          streak[i] = IF streakStart = <<>> THEN "noop"
                      ELSE IF ~Marshalable(streakStart) THEN "failed"
                      ELSE IF i = 1 THEN "record" ELSE "noop"
    /\ streak # <<>> /\ NoFlushInProgress =>
          buffer = IF Marshalable(streakStart) THEN <<>> ELSE streakStart

C10_Witness ==
    /\ streak = <<"record", "noop">>
    /\ Len(streakStart) = MaxCap
    /\ buffer = <<>>

\* C20: on a disabled sink every HandleFailure call returns nil and the
\* point is dropped: however many calls were made, the buffer is empty and
\* nothing has been written to the log.
C20_DisabledDropsPoints ==
    ~enabled =>
        /\ buffer = <<>>
        /\ fbLog = <<>>
        /\ accepted = <<>>
        /\ (nextId > 0 => hfRet = NoError)
        /\ \A p \in Procs : spc[p] \in {"idle", "f_flush"}

C20_Witness ==
    /\ ~enabled
    /\ nextId = MaxPoints
    /\ hfRet = NoError
    /\ nFlush >= 1

(***************************************************************************)
(* Properties of MonitorWithFallback (FacadeSpec: concurrent writers;      *)
(* FacadeCallSpec: one writer, every method and value)                     *)
(***************************************************************************)

\* goroutine w calls into the primary backend in this step
InvokesPrimary(w) == wpc[w] = "primary" /\ wpc'[w] # "primary"

\* goroutine w has finished a write
Returned(w) == wpc[w] = "idle" /\ wRet[w] # NotReturned

\* C11 (as stated): a write whose primary call errors moves the state to
\* Degraded, and while the state is Degraded no write of any goroutine
\* calls into the primary backend.
C11_NoPrimaryCallWhileDegraded ==
    [][\A w \in Procs :
        /\ (wpc[w] = "degrade" /\ wpc'[w] # "degrade" => ~isHealthy')
        /\ (InvokesPrimary(w) => isHealthy)]_vars

\* C11 (amended): a write whose primary call errors leaves the state
\* Degraded; a write that reads the state as Degraded skips the primary
\* backend and goes to the fallback path, one that reads Healthy goes to the
\* primary; so only a write that read Healthy calls into the primary, even
\* if the state has become Degraded since.
C11_DegradedReadSkipsPrimary ==
    [][\A w \in Procs :
        /\ (wpc[w] = "degrade" /\ wpc'[w] # "degrade" => ~isHealthy')
        /\ (wpc[w] = "idle" /\ wpc'[w] # "idle" =>
                /\ wIsHealthy'[w] = isHealthy
                /\ wpc'[w] = IF isHealthy THEN "primary" ELSE "fallback")
        /\ (InvokesPrimary(w) => wIsHealthy[w])]_vars

C11_Witness ==
    \E w1, w2 \in Procs :
        /\ wTrace[w1].primary = "err"
        /\ ~isHealthy
        /\ wpc[w2] = "fallback"
        /\ ~wIsHealthy[w2]
        /\ wTrace[w2].primary = "skipped"

\* C12: a write returns ErrMonitoringSystemUnavailable only when the primary
\* was skipped or failed and no enabled fallback is configured; with an
\* enabled fallback a skipped or failed primary hands exactly one point with
\* the call's name, kind and value to HandleFailure and returns its result
\* (nil); the primary's own error is never what the write returns.
C12_UnavailableOnlyWithoutFallback ==
    \A w \in Procs : Returned(w) =>
        /\ wRet[w] \in {NoError, ErrMonitoringSystemUnavailable}
        /\ (wRet[w] = ErrMonitoringSystemUnavailable =>
                /\ wTrace[w].primary \in {"skipped", "err"}
                /\ ~FallbackUsable
                /\ wTrace[w].handed = <<>>)
        /\ (FallbackUsable /\ wTrace[w].primary \in {"skipped", "err"} =>
                /\ wTrace[w].handed = <<wArgs[w]>>
                /\ buffer # <<>>
                /\ buffer[Len(buffer)] = wArgs[w]
                /\ wRet[w] = NoError)

C12_Witness ==
    /\ Returned(1)
    /\ FallbackUsable
    /\ wTrace[1].primary = "err"
    /\ wArgs[1].type = "histogram"
    /\ wArgs[1].value = "NaN"
    /\ wRet[1] = NoError

\* C13: a write that read Healthy and whose primary call succeeds returns
\* nil and leaves the health state, the fallback buffer and the fallback
\* log as they were, handing nothing to the fallback.
C13_HealthyWriteFrame ==
    [][\A w \in Procs :
        (wpc[w] = "primary" /\ wpc'[w] = "idle") =>
            /\ wIsHealthy[w]
            /\ wRet'[w] = NoError
            /\ isHealthy' = isHealthy
            /\ buffer' = buffer
            /\ fbLog' = fbLog
            /\ nextId' = nextId
            /\ wTrace'[w].handed = <<>>]_vars

C13_Witness ==
    /\ Returned(1)
    /\ wTrace[1].primary = "ok"
    /\ isHealthy
    /\ FallbackUsable
    /\ buffer = <<>>
    /\ nWrites = MaxWrites

\* C14: the state goes from Degraded to Healthy only in the step where the
\* probe writes a result that is true, and right after any probe write the
\* state equals that probe's result.
C14_OnlyProbeRestores ==
    [][/\ (~isHealthy /\ isHealthy' => ppc = "write" /\ ppc' = "range" /\ healthy)
       /\ (ppc = "write" /\ ppc' = "range" => isHealthy' = healthy)]_vars

C14_Witness ==
    /\ isHealthy
    /\ healthy
    /\ ppc = "range"
    /\ nProbes >= 1
    /\ \E w \in Procs : wTrace[w].primary = "err" /\ wpc[w] = "idle"

\* C15: built with periodicCheck <= 0 the facade has no ticker and no probe,
\* and once IsHealthy has answered false the state is Degraded in every
\* later state (so every later IsHealthy answers false).
C15_NoProbeMonotone ==
    periodicCheck <= 0 =>
        /\ healthCheckTicker = "nil"
        /\ ppc = "none"
        /\ nProbes = 0
        /\ (observed = "degraded" => ~isHealthy)

C15_Witness ==
    /\ periodicCheck <= 0
    /\ observed = "degraded"
    /\ nWrites = MaxWrites
    /\ \A w \in Procs : wpc[w] = "idle"
    /\ nStops >= 1

(***************************************************************************)
(* Properties of Checker.RunChecks (checked under HealthSpec)              *)
(***************************************************************************)

\* a RunChecks call has returned
RunDone == rpc = "idle" /\ nRuns > 0

\* the checks of the last run whose Execute returned StatusDown
DownChecks == {i \in 1 .. Len(outcomes) : outcomes[i].status = StatusDown}

\* C16: RunChecks returns Down if and only if some check's Execute returned
\* Down; with no registered check it returns Up with empty details; and the
\* same checks without the only one that returned Down yield Up.
C16_DownIffSomeCheckDown ==
    RunDone =>
        /\ result = RunChecksResult(ranOn, outcomes)
        /\ (result.Status = StatusDown <=> DownChecks # {})
        /\ result.Status \in {StatusUp, StatusDown}
        /\ (ranOn = <<>> => result = [Status |-> StatusUp, Details |-> {}])
        /\ \A i \in DownChecks :
            DownChecks = {i} =>
                RunChecksResult(RemoveAt(ranOn, i), RemoveAt(outcomes, i)).Status
                    = StatusUp

C16_Witness ==
    /\ RunDone
    /\ Len(ranOn) = MaxChecks
    /\ Cardinality(DownChecks) = 1
    /\ result.Status = StatusDown
    /\ \E i \in 1 .. Len(outcomes) :
        outcomes[i].status = StatusUp /\ outcomes[i].err # NoError

\* C17: a run executes every registered check exactly once, in registration
\* order, and its Details hold one entry per registered check, each with
\* that check's own status and error.
C17_OneResultPerCheck ==
    RunDone =>
        /\ executed = [i \in 1 .. Len(ranOn) |-> i]
        /\ Cardinality(result.Details) = Len(ranOn)
        /\ \A i \in 1 .. Len(ranOn) :
            CheckResultOf(ranOn[i], outcomes[i]) \in result.Details

\* C18: a check whose Execute returns an error is recorded with status Down
\* and the error text and makes the aggregate Down, and the statuses
\* recorded for the other checks are their own.
C18_ErrorRecordedAsDown ==
    RunDone =>
        \A i \in 1 .. Len(ranOn) :
            outcomes[i].err # NoError =>
                /\ [Name |-> ranOn[i].name, Status |-> StatusDown,
                    Error |-> outcomes[i].err.text] \in result.Details
                /\ result.Status = StatusDown
                /\ \A j \in 1 .. Len(ranOn) :
                    ranOn[j].name # ranOn[i].name =>
                        CheckResultOf(ranOn[j], outcomes[j]) \in result.Details

(***************************************************************************)
(* Properties of PeriodicFlusher (checked under FlusherSpec)               *)
(***************************************************************************)

\* no serialization failure has been logged
NoMarshalFailure == \A i \in 1 .. Len(fbLog) : IsInfo(fbLog[i])

\* point pt is part of a record written to the log
Flushed(pt) ==
    \E i \in 1 .. Len(FlushRecords) :
        \E j \in 1 .. Len(FlushRecords[i].metrics) : FlushRecords[i].metrics[j] = pt

\* a Stop call that found the flusher running has returned
StoppedRunning == stopsDone >= 1 /\ stopChan = "closed"

C21_CancelledBeforeLaterAttempt ==
    [][(/\ mode = "DoWithContext"
        /\ pc = "loop"
        /\ attempt > FirstAttempt
        /\ LoopCond(attempt, config)
        /\ ctxDone)
       => (/\ invocations' = invocations
           /\ pc' = "done"
           /\ ret' = ctxErr)]_vars

\* a call ended by the check at the head of the loop, after the timer of the
\* wait before it had fired
C21_Witness ==
    /\ mode = "DoWithContext"
    /\ pc = "done"
    /\ ctxDone
    /\ ret = ctxErr
    /\ attempt > FirstAttempt
    /\ invocations = attempt - 1
    /\ cancelAt.pc = "wait"

(***************************************************************************)
(* C26: when the context handed to DoWithContext is already cancelled at   *)
(* the start of the call, the operation is never invoked and the call      *)
(* returns the context's error.                                            *)
(***************************************************************************)
C26_CancelledAtStartNeverInvokes ==
    (mode = "DoWithContext" /\ cancelAt.pc = "start")
    => /\ invocations = 0
       /\ (pc = "done" => ret = ctxErr)

(***************************************************************************)
(* C27: whatever MaxAttempts is (0 and negatives included), a call of Do   *)
(* or DoWithContext that returns nil has invoked the operation at least    *)
(* once, and the last invocation returned nil.                             *)
(***************************************************************************)
C27_NilMeansOperationSucceeded ==
    (pc = "done" /\ ret = NoError)
    => /\ invocations >= 1
       /\ okAt = invocations
       /\ err = NoError

(***************************************************************************)
(* C22: no retry run ever executes with a malformed policy: whenever the   *)
(* operation has been invoked, the policy of the run has a multiplier      *)
(* above 1, a randomization factor within [0, 1] and positive intervals.   *)
(***************************************************************************)
C22_RunsOnlyWellFormedPolicies ==
    invocations > 0
    => /\ config.Multiplier.num > config.Multiplier.den
       /\ config.RandomizationFactor.num >= 0
       /\ config.RandomizationFactor.num <= config.RandomizationFactor.den
       /\ config.InitialInterval > 0
       /\ config.MaxInterval > 0

(***************************************************************************)
(* C23: a flush of LocalLoggingFallback whose serialization fails logs the *)
(* failure and leaves the buffer as it was; and points leave the buffer    *)
(* only right after a flush record holding exactly them was written, so    *)
(* the points of a failed flush are never dropped.                         *)
(***************************************************************************)
FailedFlushStep ==
    /\ FlushOutcome = "failed"
    /\ \E p \in Procs : spc[p] \in {"hf_flush", "f_flush"} /\ spc'[p] # spc[p]

\* buffer' does not start with the points of buffer
PointsLeaveBuffer ==
    \/ Len(buffer') < Len(buffer)
    \/ \E i \in 1 .. Len(buffer) : buffer'[i] # buffer[i]

C23_FailedFlushLoggedBufferKept ==
    [][/\ FailedFlushStep
          => (buffer' = buffer /\ fbLog' = Append(fbLog, ErrorEntry))
       /\ PointsLeaveBuffer
          => (/\ fbLog' = fbLog
              /\ Len(fbLog) > 0
              /\ fbLog[Len(fbLog)] = InfoEntry(buffer))]_vars

\* a Flush call has failed, and its points are still in the buffer
C23_Witness ==
    /\ \A p \in Procs : spc[p] = "idle"
    /\ streak # <<>>
    /\ streak[Len(streak)] = "failed"
    /\ Len(fbLog) > 0
    /\ fbLog[Len(fbLog)] = ErrorEntry
    /\ buffer # <<>>
    /\ ~Marshalable(buffer)

(***************************************************************************)
(* C24: every answer of HealthCheckHandler has HTTP code 200 and overall   *)
(* status UP; its monitoring detail is UP exactly when IsHealthy returned  *)
(* true, and DOWN together with the fallback note exactly when it returned *)
(* false.                                                                  *)
(***************************************************************************)
C24_HandlerAlwaysUp ==
    response # NoResponse
    => /\ response.code = 200
       /\ response.status = "UP"
       /\ response.monitoring \in {"UP", "DOWN"}
       /\ (response.monitoring = "UP") <=> response.isHealthy
       /\ (response.monitoring = "DOWN") <=> response.notes

\* the endpoint has answered while the facade was degraded after a failed write
C24_Witness ==
    /\ response # NoResponse
    /\ ~response.isHealthy
    /\ response.monitoring = "DOWN"
    /\ ~isHealthy
    /\ nWrites > 0

(***************************************************************************)
(* C25: whatever the interleaving of PrometheusMonitor writes, for every   *)
(* metric name and the kind it is registered under at most one vector is   *)
(* ever created; every write of that kind and name that got a handle got   *)
(* that one vector, which is the one registered under the name and stored  *)
(* in the monitor's map; and a write gets an error only when the name is   *)
(* registered under another kind, never because a writer of its own kind   *)
(* registered it first.                                                    *)
(***************************************************************************)
CreatedFor(k, n) ==
    { h \in 1 .. Len(created) : created[h] = [kind |-> k, name |-> n] }

C25_OneHandlePerName ==
    /\ \A k \in MetricKinds, n \in MetricNames :
        (\A c \in Registered(n) : c.kind = k) => Cardinality(CreatedFor(k, n)) <= 1
    /\ \A g \in got :
        IF g.err = "nil"
        THEN /\ CreatedFor(g.kind, g.name) = {g.handle}
             /\ vecs[g.kind][g.name] = g.handle
             /\ Registered(g.name) =
                    {[name |-> g.name, kind |-> g.kind, handle |-> g.handle]}
        ELSE \E c \in Registered(g.name) : c.kind # g.kind

\* two goroutines have written the same kind and name, the second having
\* entered while the first held the lock or after it; both got the one handle
C25_Witness ==
    \E g1 \in got, g2 \in got :
        /\ g1.proc # g2.proc
        /\ g1.kind = g2.kind
        /\ g1.name = g2.name
        /\ g1.err = "nil"
        /\ g2.err = "nil"
        /\ g1.handle = g2.handle

(***************************************************************************)
(* C28: for the same config, the same outcomes of the operation and the    *)
(* same jitter draws, Do and DoWithContext with a context that is never    *)
(* cancelled make the same number of invocations, wait the same intervals  *)
(* in the same order and return the same result; neither waits after the   *)
(* final failed attempt.                                                   *)
(***************************************************************************)
C28_DoEquivalentToDoWithContext ==
    (eqDo # NotRun /\ eqCtx # NotRun)
    => /\ eqDo.invocations = eqCtx.invocations
       /\ eqDo.waits = eqCtx.waits
       /\ eqDo.ret = eqCtx.ret
       /\ (eqDo.ret # NoError /\ eqDo.invocations > 0)
          => Len(eqDo.waits) = eqDo.invocations - 1

\* both have run on a policy of several attempts and ended in exhaustion
\* after waiting between the attempts
C28_Witness ==
    /\ eqDo # NotRun
    /\ eqCtx # NotRun
    /\ eqIn.config.MaxAttempts > 1
    /\ eqDo.invocations = eqIn.config.MaxAttempts
    /\ eqCtx.waits # <<>>
    /\ eqCtx.ret # NoError

(***************************************************************************)
(* C29: for every sequence of Start and Stop calls on one PeriodicFlusher  *)
(* at most one flush loop runs at any time; and once the flusher has been  *)
(* started and the last call made on it is a Stop that has returned, the   *)
(* final flush has been performed, the ticker is stopped and a loop that   *)
(* has not returned yet has been told to stop (stopChan is closed).        *)
(***************************************************************************)
C29_LastStopEndsTheLoop ==
    /\ loops <= 1
    /\ (nStarts >= 1 /\ lastCall = "Stop" /\ mpc = "idle")
       => /\ stopFlushes >= 1
          /\ ticker # "running"
          /\ (loops > 0 => stopChan = "closed")

(***************************************************************************)
(* C30: once MonitorWithFallback.Stop has returned on a facade with a      *)
(* probe loop, the probe loop never writes the health state again.         *)
(***************************************************************************)
C30_NoProbeWriteAfterStop ==
    [][(nStops >= 1 /\ healthCheckTicker = "stopped")
       => ~(ppc = "write" /\ ppc' = "range")]_vars

(***************************************************************************)
(* C31: the AggregateResult a RunChecks call returns is self-consistent,   *)
(* whatever checks are registered (checks sharing a name included): its    *)
(* Status is Down if and only if some entry of its Details has status      *)
(* Down.                                                                   *)
(***************************************************************************)
C31_StatusAgreesWithDetails ==
    RunDone =>
        (result.Status = StatusDown
            <=> \E r \in result.Details : r.Status = StatusDown)

(***************************************************************************)
(* C32: every order CreateOrder stores is in a final payment state: it is  *)
(* stored Paid and returned without error if and only if ProcessPayment    *)
(* succeeded under the retry, stored Cancelled and returned with an error  *)
(* otherwise; none is stored Pending; and SendNotification is called only  *)
(* for orders whose payment succeeded.                                     *)
(***************************************************************************)
C32_StoredOrdersAreFinal ==
    /\ \A o \in orders :
        /\ o.Status \in {OrderStatusPaid, OrderStatusCancelled}
        /\ o.Status = OrderStatusPaid <=> o.ID \in paidOk
    /\ \A r \in oReturned :
        /\ r.ok <=> r.ID \in paidOk
        /\ \E o \in orders : o.ID = r.ID
    /\ \A id \in notified : id \in paidOk

(***************************************************************************)
(* C33: for a request whose path is not exempt and whose context stays     *)
(* live, with MaxAttempts >= 1, when the request is done the downstream    *)
(* handler has run once per attempt (call of the retried function); every  *)
(* attempt but the last saw a retryable status; there were at most         *)
(* MaxAttempts attempts; and ErrorHandler, when set, was called exactly    *)
(* when the last attempt's status was retryable.                           *)
(***************************************************************************)
C33_HandlersRunOncePerAttempt ==
    (mwpc = "done" /\ ~exempt /\ ~mwCtxDone /\ mwConfig.MaxAttempts >= 1)
    => /\ handlerRuns = Len(statuses)
       /\ Len(statuses) >= 1
       /\ Len(statuses) <= mwConfig.MaxAttempts
       /\ \A i \in 1 .. Len(statuses) - 1 : shouldRetry(statuses[i], RetryableStatus)
       /\ mwConfig.ErrorHandler
          => (reported = 1 <=> shouldRetry(statuses[Len(statuses)], RetryableStatus))
       /\ reported <= 1
====
